---- MODULE Spec2Model ----
(***************************************************************************)
(* A model of the beszel hub's alert engine (package alerts), the agent's  *)
(* stats cache (Agent.gatherStats) and the agent's liveness probe          *)
(* (Health).  Time is counted in whole seconds.                            *)
(***************************************************************************)
EXTENDS Integers, Sequences, FiniteSets, TLC

(***************************************************************************)
(* Bounds of the model.                                                    *)
(***************************************************************************)
\* The hub clock runs from 0 to MaxTime seconds.
MaxTime == 77
\* The clock is read every ClockStep seconds.
ClockStep == 7
\* Number of tasks the alert queue holds before a send blocks.
AlertQueueCap == 1
\* The agent clock runs from 0 to MaxAgentTime seconds.
MaxAgentTime == 80
\* The agent clock is read every AgentClockStep seconds.
AgentClockStep == 20
\* gatherStats calls stop once this many collections have started.
MaxCollections == 3
\* A connection takes from 0 to MaxDialDelay seconds to be established.
MaxDialDelay == 3

\* Number of times the hub is started on the same data directory
MaxKeyCalls == 2
\* With statuses other than "up" and "down" in play, HandleStatusAlerts calls
\* stop once this many "up" notifications have been sent for a rule.
MaxUpSent == 2
\* The hub's clock stops after this many minutes.
MaxMinutes == 130

(***************************************************************************)
(* Program constants.                                                      *)
(***************************************************************************)
\* time.Tick(13 * time.Second)
TickSeconds == 13
\* time.Minute, in seconds
MinuteSeconds == 60
\* time.Second*10, the buffer added to every delay
BufferSeconds == 10
\* const cacheTime = 60 * time.Second
cacheTime == 60
\* the timeout of net.DialTimeout in Health, 2*time.Second
DialTimeoutSeconds == 2

(***************************************************************************)
(* The alert engine: hosts, their "Status" alert records (rules).          *)
(***************************************************************************)
Systems == {"h1"}
AlertIds == {"r1", "r2", "r3", "r4"}
Statuses == {"pending", "up", "down"}

\* oldSystemRecord.GetString("name")
SystemName(h) == h

\* alertRecord.GetInt("min") of each Status alert record
AlertMin(r) ==
    IF r = "r1" THEN 1 ELSE IF r = "r2" THEN 0 ELSE IF r = "r3" THEN -1 ELSE 2

\* The system an alert record belongs to.
AlertSystem(r) == "h1"

\* The alert records of a set, in the order the record store returns them.
InStoreOrder(S) ==
    (IF "r1" \in S THEN <<"r1">> ELSE << >>) \o (IF "r2" \in S THEN <<"r2">> ELSE << >>)
    \o (IF "r3" \in S THEN <<"r3">> ELSE << >>) \o (IF "r4" \in S THEN <<"r4">> ELSE << >>)

Max(a, b) == IF a >= b THEN a ELSE b

delayWithoutBuffer(r) == Max(1, AlertMin(r)) * MinuteSeconds

delayWithoutMax(r) == AlertMin(r) * MinuteSeconds + BufferSeconds

\* delayToNotification of handleSystemDown, in seconds
delayToNotification(r) == Max(1, AlertMin(r)) * MinuteSeconds + BufferSeconds

VARIABLES
    now,            \* the hub's clock, seconds since the worker started
    tickReady,      \* a tick is waiting in the channel time.Tick returned
    stopChan,       \* "open" or "closed"
    workerRunning,  \* statusAlertWorker has not returned
    status,         \* system -> the status stored in its record
    pendingAlerts,  \* the map alert id -> alertInfo; DOMAIN = the ids stored
    alertQueue,     \* the tasks in the channel, oldest first
    hsa,            \* system -> where its HandleStatusAlerts call stands
    alerts,         \* the "Status" alert records that exist in the record store
    lookupFailed,   \* history: system -> a lookup of its alert records has failed
    earlyUp,        \* history: alert id -> the up-transition found its alert pending and not expired
    downAt,         \* history: time of the down-transition of the outage in progress
    lastOutage,     \* history: alert id -> how long the last finished outage was
    everLong,       \* history: alert id -> some outage reached the alert's delay
    downSent,       \* history: alert id -> "down" notifications since the last down-transition
    upSent,         \* history: alert id -> "up" notifications since the last down-transition
    sendFailed,     \* history: alert id -> the last "down" sendStatusAlert for it returned an error
    stalled,        \* history: time has passed while a task, a tick or a call was waiting
    \* the agent (Agent.gatherStats)
    agentNow,       \* the agent's clock, seconds since NewAgent
    mu,             \* the caller holding the Agent's sync.Mutex, or "none"
    call,           \* caller -> where its gatherStats call stands, and for which user
    data,           \* the content of the buffer a.data points to
    updated,        \* a.updated
    sshUser,        \* a.sshUser
    fsStats,        \* a.fsStats: filesystem name -> its Root flag and DiskTotal
    collections,    \* number of collections started so far
    received,       \* history: caller -> the content of *a.data when its call returned
    \* the liveness probe (Health)
    hNetwork,       \* the configured network
    hAddr,          \* the configured address
    listening,      \* the <<network, address>> pairs a server accepts connections on
    dialDelay,      \* seconds a connection takes to be established
    hpc,            \* where the Health call stands
    conn,           \* the connection of the probe: "none", "open" or "closed"
    dialErr,        \* err of net.DialTimeout
    exitCode,       \* the value Health returned, -1 before it returns
    bytesSent,      \* bytes the probe wrote to the connection
    bytesRead,      \* bytes the probe read from the connection
    authAttempted,  \* the probe started an SSH handshake
    \* the configuration of the agent and of the hub (loadPublicKeys, GetEnv)
    optsKey,        \* opts.key, the value of the -key flag
    env,            \* the environment: name of a variable that is set -> its value
    files,          \* path -> the file os.ReadFile finds there
    kpc,            \* where the loadPublicKeys call stands
    keyFile,        \* the local keyFile of loadPublicKeys
    keysResult,     \* what loadPublicKeys returned
    sourcesRead,    \* history: the sources loadPublicKeys has looked at
    envCall,        \* history: the last call of a GetEnv, with what it returned
    appURL,         \* hub.appURL
    \* the hub's key pair (Hub.GetSSHKey)
    privFile,       \* the file dataDir/id_ed25519
    pubFile,        \* the file dataDir/id_ed25519.pub
    spc,            \* where the GetSSHKey call stands
    sshResult,      \* what GetSSHKey returned
    hPubKey,        \* h.pubKey
    keysGenerated,  \* number of key pairs generated so far; the last is number keysGenerated
    sshCalls,       \* number of GetSSHKey calls started so far
    written,        \* history: the files the call in progress has created or overwritten
    privAtStart,    \* history: privFile when the call in progress started
    pubAtStart,     \* history: pubFile when the call in progress started
    firstKey,       \* history: the key the first successful call before this one returned, -1 if none
    apiResponse,    \* history: the last request to /api/beszel/getkey and its response
    \* the start of the hub and its cron jobs (Hub.StartHub, Hub.registerCronJobs)
    minute,         \* the hub's clock, minutes since the start of an hour
    serveStep,      \* the step of the OnServe hook that is next, "serving" or "failed"
    stepsDone,      \* history: the steps of the hook that have returned no error
    cronJobs,       \* the jobs of h.Cron(): job id -> cron expression
    registeredAt,   \* history: the minute registerCronJobs ran in, -1 before
    deleteRuns,     \* history: the minutes DeleteOldRecords was started in
    createRuns      \* history: the minutes CreateLongerRecords was started in

alertState == <<now, tickReady, stopChan, workerRunning, status, pendingAlerts,
                alertQueue, hsa, alerts>>

alertHistory == <<lookupFailed, earlyUp, downAt, lastOutage, everLong, downSent,
                  upSent, sendFailed, stalled>>

alertVars == <<alertState, alertHistory>>

agentVars == <<agentNow, mu, call, data, updated, sshUser, fsStats, collections,
               received>>

healthVars == <<hNetwork, hAddr, listening, dialDelay, hpc, conn, dialErr, exitCode,
                bytesSent, bytesRead, authAttempted>>

configVars == <<optsKey, env, files, kpc, keyFile, keysResult, sourcesRead, envCall,
                appURL>>

sshKeyVars == <<privFile, pubFile, spc, sshResult, hPubKey, keysGenerated, sshCalls,
                written, privAtStart, pubAtStart, firstKey, apiResponse>>

hubVars == <<minute, serveStep, stepsDone, cronJobs, registeredAt, deleteRuns, createRuns>>

vars == <<alertVars, agentVars, healthVars, configVars, sshKeyVars, hubVars>>

\* The variables of the other parts, which a step of one part leaves alone.
notAlertVars == <<agentVars, healthVars, configVars, sshKeyVars, hubVars>>
notAgentVars == <<alertVars, healthVars, configVars, sshKeyVars, hubVars>>
notHealthVars == <<alertVars, agentVars, configVars, sshKeyVars, hubVars>>
notConfigVars == <<alertVars, agentVars, healthVars, sshKeyVars, hubVars>>
notSSHKeyVars == <<alertVars, agentVars, healthVars, configVars, hubVars>>
notHubVars == <<alertVars, agentVars, healthVars, configVars, sshKeyVars>>

IdleCall == [pc |-> "idle", newStatus |-> "", records |-> <<>>]

\* type alertTask struct
scheduleTask(h, r) ==
    [action |-> "schedule", systemName |-> SystemName(h), alertRecord |-> r,
     delay |-> delayToNotification(r)]

cancelTask(r) ==
    [action |-> "cancel", systemName |-> "", alertRecord |-> r, delay |-> 0]

\* sync.Map operations
Exists(r) == r \in DOMAIN pendingAlerts

Store(m, r, info) ==
    [x \in (DOMAIN m) \cup {r} |-> IF x = r THEN info ELSE m[x]]

DeleteNothing(m, r) == m

Delete(m, r) == [x \in (DOMAIN m) \ {r} |-> m[x]]

\* The alert records of the runs that follow the engine over the long clock:
\* none, the one with a minimum of 1, or those with minimum 1 and 0
LongRunAlerts == {{}, {"r1"}, {"r1", "r2"}}

\* The alert records of the runs over the short clock that look at the
\* delays: those with minimum 0, -1 and 2
DelayAlerts == {"r2", "r3", "r4"}

InitAlerts ==
    /\ now = 0
    /\ tickReady = FALSE
    /\ stopChan = "open"
    /\ workerRunning = TRUE
    /\ status = [h \in Systems |-> "pending"]
    /\ pendingAlerts = << >>
    /\ alertQueue = << >>
    /\ hsa = [h \in Systems |-> IdleCall]
    /\ alerts \in LongRunAlerts \cup {DelayAlerts}
    /\ lookupFailed = [h \in Systems |-> FALSE]
    /\ earlyUp = [r \in AlertIds |-> FALSE]
    /\ downAt = [h \in Systems |-> -1]
    /\ lastOutage = [r \in AlertIds |-> "none"]
    /\ everLong = [r \in AlertIds |-> FALSE]
    /\ downSent = [r \in AlertIds |-> 0]
    /\ upSent = [r \in AlertIds |-> 0]
    /\ sendFailed = [r \in AlertIds |-> FALSE]
    /\ stalled = FALSE

(***************************************************************************)
(* History of outages.  A down-transition is a change of the stored status *)
(* from "up" to "down", an up-transition the change from "down" to "up"    *)
(* that follows it; the outage is the time between the two.                *)
(***************************************************************************)
\* getSystemStatusAlerts: the lookup of the "Status" alert records of a
\* system fails (ok = FALSE) or returns the records that exist.
getSystemStatusAlerts(h, ok) ==
    IF ok THEN [err |-> FALSE, records |-> InStoreOrder({r \in alerts : AlertSystem(r) = h})]
    ELSE [err |-> TRUE, records |-> << >>]

OutageClass(len, r) ==
    IF len < delayToNotification(r) THEN "short"
    ELSE IF len = delayToNotification(r) THEN "exact" ELSE "long"

RecordTransition(h, newStatus) ==
    LET old == status[h]
        mine(r) == AlertSystem(r) = h
    IN  IF newStatus = "down" /\ old = "up"
        THEN /\ downAt' = [downAt EXCEPT ![h] = now]
             /\ lastOutage' = [r \in AlertIds |-> IF mine(r) THEN "none" ELSE lastOutage[r]]
             /\ downSent' = [r \in AlertIds |-> IF mine(r) THEN 0 ELSE downSent[r]]
             /\ upSent' = [r \in AlertIds |-> IF mine(r) THEN 0 ELSE upSent[r]]
             /\ earlyUp' = [r \in AlertIds |-> IF mine(r) THEN FALSE ELSE earlyUp[r]]
             /\ sendFailed' = [r \in AlertIds |-> IF mine(r) THEN FALSE ELSE sendFailed[r]]
             /\ UNCHANGED everLong
        ELSE IF newStatus = "up" /\ old = "down" /\ downAt[h] >= 0
        THEN /\ downAt' = [downAt EXCEPT ![h] = -1]
             /\ lastOutage' = [r \in AlertIds |->
                                 IF mine(r) THEN OutageClass(now - downAt[h], r)
                                 ELSE lastOutage[r]]
             /\ everLong' = [r \in AlertIds |->
                               everLong[r] \/ (mine(r) /\ now - downAt[h] >= delayToNotification(r))]
             /\ UNCHANGED <<downSent, upSent, earlyUp, sendFailed>>
        ELSE UNCHANGED <<downAt, lastOutage, everLong, downSent, upSent, earlyUp, sendFailed>>

(***************************************************************************)
(* HandleStatusAlerts(newStatus, oldSystemRecord), called by the poller    *)
(* when it stores a new status for system h.  ok is whether the lookup of  *)
(* the alert records succeeds.                                             *)
(***************************************************************************)
statusChangedWhateverBefore(newStatus, oldStatus) == newStatus \in {"up", "down"}

statusChanged(newStatus, oldStatus) ==
    \/ newStatus = "up" /\ oldStatus = "down"
    \/ newStatus = "down" /\ oldStatus = "up"

HandleStatusAlerts(h, newStatus, ok) ==
    /\ hsa[h].pc = "idle"
    /\ LET found == getSystemStatusAlerts(h, ok)
       IN  IF ~statusChanged(newStatus, status[h])
           THEN UNCHANGED <<hsa, lookupFailed>>
           ELSE /\ hsa' = [hsa EXCEPT ![h] =
                            IF ~found.err /\ Len(found.records) # 0
                            THEN [pc |-> "load", newStatus |-> newStatus,
                                  records |-> found.records]
                            ELSE IdleCall]
                /\ lookupFailed' = [lookupFailed EXCEPT ![h] = @ \/ found.err]
    /\ RecordTransition(h, newStatus)
    /\ status' = [status EXCEPT ![h] = newStatus]
    /\ UNCHANGED <<now, tickReady, stopChan, workerRunning, pendingAlerts, alertQueue,
                   alerts, stalled, notAlertVars>>

\* The call moves on to the next alert record of its loop, or returns.
NextRecord(c) ==
    IF Len(c.records) = 1 THEN IdleCall
    ELSE [c EXCEPT !.pc = "load", !.records = Tail(c.records)]

\* handleSystemDown, one iteration up to the channel send
handleSystemDownLoad(h) ==
    /\ hsa[h].pc = "load" /\ hsa[h].newStatus = "down"
    /\ hsa' = [hsa EXCEPT ![h] =
                 IF Exists(Head(hsa[h].records)) THEN NextRecord(hsa[h])
                 ELSE [hsa[h] EXCEPT !.pc = "send"]]
    /\ UNCHANGED <<now, tickReady, stopChan, workerRunning, status, pendingAlerts,
                   alertQueue, alerts, alertHistory, notAlertVars>>

\* handleSystemDown: am.alertQueue <- alertTask{action: "schedule", ...}
handleSystemDownSend(h) ==
    /\ hsa[h].pc = "send" /\ hsa[h].newStatus = "down"
    /\ Len(alertQueue) < AlertQueueCap
    /\ alertQueue' = Append(alertQueue, scheduleTask(h, Head(hsa[h].records)))
    /\ hsa' = [hsa EXCEPT ![h] = NextRecord(hsa[h])]
    /\ UNCHANGED <<now, tickReady, stopChan, workerRunning, status, pendingAlerts,
                   alerts, alertHistory, notAlertVars>>

\* handleSystemUp, one iteration up to the channel send; with no pending
\* alert for the record it sends the "up" alert
handleSystemUpLoad(h) ==
    /\ hsa[h].pc = "load" /\ hsa[h].newStatus = "up"
    /\ LET r == Head(hsa[h].records)
       IN  IF Exists(r)
           THEN /\ hsa' = [hsa EXCEPT ![h] = [hsa[h] EXCEPT !.pc = "send"]]
                /\ earlyUp' = [earlyUp EXCEPT ![r] = now < pendingAlerts[r].expireTime]
                /\ UNCHANGED upSent
           ELSE /\ hsa' = [hsa EXCEPT ![h] = NextRecord(hsa[h])]
                /\ upSent' = [upSent EXCEPT ![r] = @ + 1]
                /\ UNCHANGED earlyUp
    /\ UNCHANGED <<now, tickReady, stopChan, workerRunning, status, pendingAlerts,
                   alertQueue, alerts, lookupFailed, downAt, lastOutage, everLong,
                   downSent, sendFailed, stalled, notAlertVars>>

\* handleSystemUp: am.alertQueue <- alertTask{action: "cancel", ...}
handleSystemUpSend(h) ==
    /\ hsa[h].pc = "send" /\ hsa[h].newStatus = "up"
    /\ Len(alertQueue) < AlertQueueCap
    /\ alertQueue' = Append(alertQueue, cancelTask(Head(hsa[h].records)))
    /\ hsa' = [hsa EXCEPT ![h] = NextRecord(hsa[h])]
    /\ UNCHANGED <<now, tickReady, stopChan, workerRunning, status, pendingAlerts,
                   alerts, alertHistory, notAlertVars>>

(***************************************************************************)
(* statusAlertWorker: one turn of its select loop.                         *)
(***************************************************************************)
ApplyTaskNoDelay(m, task) ==
    IF task.action = "schedule"
    THEN Store(m, task.alertRecord,
               [systemName |-> task.systemName, expireTime |-> now])
    ELSE Delete(m, task.alertRecord)

\* case task := <-am.alertQueue
ApplyTask(m, task) ==
    IF task.action = "schedule"
    THEN Store(m, task.alertRecord,
               [systemName |-> task.systemName, expireTime |-> now + task.delay])
    ELSE Delete(m, task.alertRecord)

WorkerTaskDrops ==
    /\ workerRunning
    /\ alertQueue # << >>
    /\ alertQueue' = Tail(alertQueue)
    /\ UNCHANGED <<now, tickReady, stopChan, workerRunning, status, pendingAlerts, hsa,
                   alerts, alertHistory, notAlertVars>>

WorkerTask ==
    /\ workerRunning
    /\ alertQueue # << >>
    /\ pendingAlerts' = ApplyTask(pendingAlerts, Head(alertQueue))
    /\ alertQueue' = Tail(alertQueue)
    /\ UNCHANGED <<now, tickReady, stopChan, workerRunning, status, hsa, alerts,
                   alertHistory, notAlertVars>>

ExpiredTwoPeriodsLater(m, r) == r \in DOMAIN m /\ now > m[r].expireTime + 2 * TickSeconds

ExpiredAtExpiry(m, r) == r \in DOMAIN m /\ now >= m[r].expireTime

\* now.After(info.expireTime)
Expired(m, r) == r \in DOMAIN m /\ now > m[r].expireTime

WorkerTickKeepsFailed(failed) ==
    /\ workerRunning
    /\ tickReady
    /\ failed \subseteq {r \in AlertIds : Expired(pendingAlerts, r)}
    /\ tickReady' = FALSE
    /\ downSent' = [r \in AlertIds |->
                      IF Expired(pendingAlerts, r) THEN downSent[r] + 1 ELSE downSent[r]]
    /\ sendFailed' = [r \in AlertIds |->
                        IF Expired(pendingAlerts, r) THEN r \in failed ELSE sendFailed[r]]
    /\ pendingAlerts' = [r \in {x \in DOMAIN pendingAlerts :
                                   ~Expired(pendingAlerts, x) \/ x \in failed} |->
                           pendingAlerts[r]]
    /\ UNCHANGED <<now, stopChan, workerRunning, status, alertQueue, hsa, alerts,
                   lookupFailed, earlyUp, downAt, lastOutage, everLong, upSent, stalled,
                   notAlertVars>>

\* case <-tick: every expired alert is sent as "down" and deleted; failed is
\* the set of the expired alerts for which sendStatusAlert returns an error,
\* which the worker does not look at
WorkerTick(failed) ==
    /\ workerRunning
    /\ tickReady
    /\ failed \subseteq {r \in AlertIds : Expired(pendingAlerts, r)}
    /\ tickReady' = FALSE
    /\ downSent' = [r \in AlertIds |->
                      IF Expired(pendingAlerts, r) THEN downSent[r] + 1 ELSE downSent[r]]
    /\ sendFailed' = [r \in AlertIds |->
                        IF Expired(pendingAlerts, r) THEN r \in failed ELSE sendFailed[r]]
    /\ pendingAlerts' = [r \in {x \in DOMAIN pendingAlerts : ~Expired(pendingAlerts, x)} |->
                           pendingAlerts[r]]
    /\ UNCHANGED <<now, stopChan, workerRunning, status, alertQueue, hsa, alerts,
                   lookupFailed, earlyUp, downAt, lastOutage, everLong, upSent, stalled,
                   notAlertVars>>

\* case <-am.stopChan: return
WorkerStopIgnored ==
    /\ workerRunning
    /\ stopChan = "closed"
    /\ tickReady
    /\ tickReady' = FALSE
    /\ UNCHANGED <<now, stopChan, workerRunning, status, pendingAlerts, alertQueue, hsa,
                   alerts, alertHistory, notAlertVars>>

WorkerStop ==
    /\ workerRunning
    /\ stopChan = "closed"
    /\ workerRunning' = FALSE
    /\ UNCHANGED <<now, tickReady, stopChan, status, pendingAlerts, alertQueue, hsa,
                   alerts, alertHistory, notAlertVars>>

\* Stop: close(am.stopChan)
Stop ==
    /\ stopChan = "open"
    /\ stopChan' = "closed"
    /\ UNCHANGED <<now, tickReady, workerRunning, status, pendingAlerts, alertQueue,
                   hsa, alerts, alertHistory, notAlertVars>>

\* A task or a tick is waiting for the worker, or a HandleStatusAlerts call
\* is under way.
Waiting ==
    \/ tickReady
    \/ alertQueue # << >>
    \/ \E h \in Systems : hsa[h].pc # "idle"

\* ClockStep seconds pass; the ticker delivers a tick every TickSeconds,
\* dropping it when the previous one has not been received.
AdvanceUntil(limit) ==
    /\ now + ClockStep <= limit
    /\ now' = now + ClockStep
    /\ tickReady' = (tickReady \/ (now + ClockStep) \div TickSeconds > now \div TickSeconds)
    /\ stalled' = (stalled \/ Waiting)
    /\ UNCHANGED <<stopChan, workerRunning, status, pendingAlerts, alertQueue, hsa,
                   alerts, lookupFailed, earlyUp, downAt, lastOutage, everLong, downSent,
                   upSent, sendFailed, notAlertVars>>

Advance == AdvanceUntil(MaxTime)

\* The clock of the runs in which the worker is followed to the end: two
\* steps, enough for one tick.
ShortTime == 2 * ClockStep

AdvanceShort == AdvanceUntil(ShortTime)

\* The clock of the runs that follow an entry past the sweep after its
\* expiry: two steps more.
LongTime == MaxTime + 2 * ClockStep

AdvanceLong == AdvanceUntil(LongTime)

\* The statuses the poller stores: "up" after a successful poll, "down"
\* after a failed one.
Polled == {"up", "down"}

\* The statuses a system record can be given: those the poller stores,
\* "pending" and "paused"
AnyStatus == Statuses \cup {"paused"}

AlertNext ==
    \/ \E h \in Systems, s \in Polled, ok \in BOOLEAN : HandleStatusAlerts(h, s, ok)
    \/ \E h \in Systems : handleSystemDownLoad(h)
    \/ \E h \in Systems : handleSystemDownSend(h)
    \/ \E h \in Systems : handleSystemUpLoad(h)
    \/ \E h \in Systems : handleSystemUpSend(h)
    \/ WorkerTask
    \/ \E failed \in SUBSET DOMAIN pendingAlerts : WorkerTick(failed)
    \/ WorkerStop
    \/ Stop
    \/ Advance


(***************************************************************************)
(* The agent: Agent.gatherStats, called by the SSH sessions of the hubs.   *)
(***************************************************************************)
\* The values of ctx.Value("user") of the sessions.
Users == {"hubA", "hubB"}
\* The goroutines that call gatherStats.
Callers == {"c1", "c2"}
\* The filesystems in a.fsStats; "root" is the root filesystem.
FsNames == {"root", "sdb1"}
\* The DiskTotal a collection finds for a filesystem.
DiskTotals == {0, 100}

IdleStatsCall == [pc |-> "idle", user |-> "", fresh |-> FALSE, dockerErr |-> FALSE]

\* &system.CombinedData{}; stats is the number of the collection the system
\* stats are of, containers the numbers of the collections the container
\* stats are of (none: Containers is nil)
EmptyData == [stats |-> 0, containers |-> {}, extraFs |-> {}]

\* time.Time{}, and the time of the agent clock
ZeroTime == [zero |-> TRUE, sec |-> 0]
TimeNow == [zero |-> FALSE, sec |-> agentNow]

InitAgent ==
    /\ agentNow = 0
    /\ mu = "none"
    /\ call = [c \in Callers |-> IdleStatsCall]
    /\ data = EmptyData
    /\ updated = ZeroTime
    /\ sshUser = ""
    /\ fsStats = [n \in FsNames |-> [Root |-> (n = "root"), DiskTotal |-> 0]]
    /\ collections = 0
    /\ received = [c \in Callers |-> EmptyData]

\* NewAgent with LOG_LEVEL=debug: agent.gatherStats(context.Background()),
\* before the agent serves any session.  The call takes the lock; the
\* context has no "user" value, ctx.Value("user") is nil and the type
\* assertion .(string) panics; the deferred Unlock runs and the panic leaves
\* NewAgent, ending the process.
NewAgentDebugStats(c) ==
    /\ \A d \in Callers : call[d] = IdleStatsCall
    /\ collections = 0 /\ updated.zero
    /\ mu = "none"
    /\ call' = [call EXCEPT ![c].pc = "panicked"]
    /\ UNCHANGED <<agentNow, mu, data, updated, sshUser, fsStats, collections, received,
                   notAgentVars>>

\* A session of user u calls gatherStats(ctx); the process has not ended.
GatherStatsCall(c, u) ==
    /\ call[c].pc = "idle"
    /\ \A d \in Callers : call[d].pc # "panicked"
    /\ collections < MaxCollections
    /\ call' = [call EXCEPT ![c] = [pc |-> "lock", user |-> u, fresh |-> FALSE,
                                     dockerErr |-> FALSE]]
    /\ UNCHANGED <<agentNow, mu, data, updated, sshUser, fsStats, collections, received,
                   notAgentVars>>

\* sync.Mutex: the mutex is held.
LockedNever == FALSE

Locked == mu # "none"

\* a.Lock()
Lock(c) ==
    /\ call[c].pc = "lock"
    /\ ~Locked
    /\ mu' = c
    /\ call' = [call EXCEPT ![c].pc = "body"]
    /\ UNCHANGED <<agentNow, data, updated, sshUser, fsStats, collections, received,
                   notAgentVars>>

\* time.Since(a.updated) < cacheTime
WithinCacheTime == ~updated.zero /\ agentNow - updated.sec < cacheTime

CacheHitSameUser(user) ==
    WithinCacheTime /\ user = sshUser

\* time.Since(a.updated) < cacheTime && user != a.sshUser && a.data != nil;
\* a.data is set by NewAgent and never set to nil
CacheHit(user) ==
    WithinCacheTime /\ user # sshUser

CheckCacheTouches(c) ==
    /\ call[c].pc = "body"
    /\ call' = [call EXCEPT ![c].pc = IF CacheHit(call[c].user) THEN "unlock" ELSE "stats"]
    /\ updated' = IF CacheHit(call[c].user) THEN TimeNow ELSE updated
    /\ UNCHANGED <<agentNow, mu, data, sshUser, fsStats, collections, received,
                   notAgentVars>>

\* The cache test: on a hit the call returns a.data, otherwise it collects.
CheckCache(c) ==
    /\ call[c].pc = "body"
    /\ call' = [call EXCEPT ![c].pc = IF CacheHit(call[c].user) THEN "unlock" ELSE "stats"]
    /\ UNCHANGED <<agentNow, mu, data, updated, sshUser, fsStats, collections, received,
                   notAgentVars>>

CollectStatsKeepsContainers(c, total) ==
    /\ call[c].pc = "stats"
    /\ collections' = collections + 1
    /\ fsStats' = [n \in FsNames |-> [fsStats[n] EXCEPT !.DiskTotal = total[n]]]
    /\ data' = [stats |-> collections + 1, containers |-> data.containers, extraFs |-> {}]
    /\ call' = [call EXCEPT ![c].pc = "docker", ![c].fresh = TRUE]
    /\ UNCHANGED <<agentNow, mu, updated, sshUser, received, notAgentVars>>

\* *a.data = system.CombinedData{Stats: a.getSystemStats(), Info: a.systemInfo};
\* getSystemStats refreshes the DiskTotal of every filesystem of a.fsStats
CollectStats(c, total) ==
    /\ call[c].pc = "stats"
    /\ collections' = collections + 1
    /\ fsStats' = [n \in FsNames |-> [fsStats[n] EXCEPT !.DiskTotal = total[n]]]
    /\ data' = [stats |-> collections + 1, containers |-> {}, extraFs |-> {}]
    /\ call' = [call EXCEPT ![c].pc = "docker", ![c].fresh = TRUE]
    /\ UNCHANGED <<agentNow, mu, updated, sshUser, received, notAgentVars>>

\* a.dockerManager.getDockerStats(): a.data.Containers is set when err == nil
AddDockerStats(c, dockerOk) ==
    /\ call[c].pc = "docker"
    /\ data' = IF dockerOk THEN [data EXCEPT !.containers = {data.stats}] ELSE data
    /\ call' = [call EXCEPT ![c].pc = "extrafs", ![c].dockerErr = ~dockerOk]
    /\ UNCHANGED <<agentNow, mu, updated, sshUser, fsStats, collections, received,
                   notAgentVars>>

\* ExtraFs without the test of stats.Root
ExtraFsWithRoot(stats) == {n \in DOMAIN stats : stats[n].DiskTotal > 0}

\* the filesystems copied to a.data.Stats.ExtraFs
ExtraFs(stats) == {n \in DOMAIN stats : ~stats[n].Root /\ stats[n].DiskTotal > 0}

\* a.data.Stats.ExtraFs = ...; a.sshUser = user; a.updated = time.Now()
AddExtraFs(c) ==
    /\ call[c].pc = "extrafs"
    /\ data' = [data EXCEPT !.extraFs = ExtraFs(fsStats)]
    /\ sshUser' = call[c].user
    /\ updated' = TimeNow
    /\ call' = [call EXCEPT ![c].pc = "unlock"]
    /\ UNCHANGED <<agentNow, mu, fsStats, collections, received, notAgentVars>>

\* return a.data, then the deferred a.Unlock(): the caller has the pointer
\* and reads what it points to
Unlock(c) ==
    /\ call[c].pc = "unlock"
    /\ mu' = "none"
    /\ received' = [received EXCEPT ![c] = data]
    /\ call' = [call EXCEPT ![c].pc = "reading"]
    /\ UNCHANGED <<agentNow, data, updated, sshUser, fsStats, collections,
                   notAgentVars>>

\* The caller has finished with the snapshot (the session has encoded it).
ReadDone(c) ==
    /\ call[c].pc = "reading"
    /\ call' = [call EXCEPT ![c] = IdleStatsCall]
    /\ UNCHANGED <<agentNow, mu, data, updated, sshUser, fsStats, collections, received,
                   notAgentVars>>

\* AgentClockStep seconds pass on the agent.
AgentAdvance ==
    /\ agentNow + AgentClockStep <= MaxAgentTime
    /\ agentNow' = agentNow + AgentClockStep
    /\ UNCHANGED <<mu, call, data, updated, sshUser, fsStats, collections, received,
                   notAgentVars>>

AgentNext ==
    \/ \E c \in Callers : NewAgentDebugStats(c)
    \/ \E c \in Callers, u \in Users : GatherStatsCall(c, u)
    \/ \E c \in Callers : Lock(c)
    \/ \E c \in Callers : CheckCache(c)
    \/ \E c \in Callers, total \in [FsNames -> DiskTotals] : CollectStats(c, total)
    \/ \E c \in Callers, dockerOk \in BOOLEAN : AddDockerStats(c, dockerOk)
    \/ \E c \in Callers : AddExtraFs(c)
    \/ \E c \in Callers : Unlock(c)
    \/ \E c \in Callers : ReadDone(c)
    \/ AgentAdvance

(***************************************************************************)
(* The liveness probe: Health().                                           *)
(***************************************************************************)
\* The <<network, address>> pairs GetNetwork and GetAddress resolve the
\* configuration to: the default tcp port, a tcp port nothing listens on,
\* and a unix socket.
Endpoints ==
    {<<"tcp", ":45876">>, <<"tcp", "127.0.0.1:65535">>, <<"unix", "/tmp/beszel_health_test.sock">>}

InitHealth ==
    /\ \E e \in Endpoints : hNetwork = e[1] /\ hAddr = e[2]
    /\ listening \in SUBSET (Endpoints \ {<<"tcp", "127.0.0.1:65535">>})
    /\ dialDelay \in 0..MaxDialDelay
    /\ hpc = "start"
    /\ conn = "none"
    /\ dialErr = FALSE
    /\ exitCode = -1
    /\ bytesSent = 0
    /\ bytesRead = 0
    /\ authAttempted = FALSE

\* net.DialTimeout(network, addr, timeout) returns a connection when a
\* server is listening on addr of that network and the connection is
\* established before the timeout, an error otherwise
DialWithoutTimeout(network, addr, timeout) ==
    <<network, addr>> \in listening

DialTimeout(network, addr, timeout) ==
    <<network, addr>> \in listening /\ dialDelay < timeout

\* conn, err := net.DialTimeout(network, addr, 2*time.Second)
HealthDial ==
    /\ hpc = "start"
    /\ IF DialTimeout(hNetwork, hAddr, DialTimeoutSeconds)
       THEN conn' = "open" /\ dialErr' = FALSE
       ELSE conn' = "none" /\ dialErr' = TRUE
    /\ hpc' = "dialed"
    /\ UNCHANGED <<hNetwork, hAddr, listening, dialDelay, exitCode, bytesSent, bytesRead,
                   authAttempted, notHealthVars>>

\* if err != nil { return 1 }; defer conn.Close(); return 0
HealthReturn ==
    /\ hpc = "dialed"
    /\ exitCode' = IF dialErr THEN 1 ELSE 0
    /\ conn' = IF dialErr THEN conn ELSE "closed"
    /\ hpc' = "returned"
    /\ UNCHANGED <<hNetwork, hAddr, listening, dialDelay, dialErr, bytesSent, bytesRead,
                   authAttempted, notHealthVars>>

HealthNext ==
    \/ HealthDial
    \/ HealthReturn

(***************************************************************************)
(* The configuration: GetEnv of the agent and of the hub, loadPublicKeys.  *)
(***************************************************************************)
AgentPrefix == "BESZEL_AGENT_"
HubPrefix == "BESZEL_HUB_"

EnvKeys == {"KEY", "KEY_FILE", "APP_URL"}

\* The variables an environment of the model may set
SettableNames ==
    {"BESZEL_AGENT_KEY", "KEY", "BESZEL_AGENT_KEY_FILE", "KEY_FILE",
     "BESZEL_HUB_APP_URL", "APP_URL"}

KeyFilePath == "/etc/beszel/key.pub"

\* The values a variable may be set to: the empty string, or a value that
\* tells which variable it is the value of
EnvValues(name) ==
    IF name \in {"BESZEL_AGENT_KEY_FILE", "KEY_FILE"}
    THEN {"", KeyFilePath}
    ELSE {"", "value of " \o name}

FlagValues == {"", "value of -key"}

Paths == {"", KeyFilePath}

NoFile == [readable |-> FALSE, content |-> ""]

FileStates == {NoFile, [readable |-> TRUE, content |-> "content of key file"]}

\* What loadPublicKeys returned: the return of agent.ParseKeys(input), or nil
\* and an error of its own
NoResult == [from |-> "none", input |-> "", err |-> ""]

NoKeyProvided == [from |-> "loadPublicKeys", input |-> "", err |-> "no key provided"]

FailedToReadKeyFile ==
    [from |-> "loadPublicKeys", input |-> "", err |-> "failed to read key file"]

NoEnvCall == [fn |-> "none", key |-> "", value |-> "", exists |-> FALSE]

ConfigAtRest ==
    /\ optsKey = ""
    /\ env = << >>
    /\ files = [p \in Paths |-> NoFile]
    /\ kpc = "start"
    /\ keyFile = ""
    /\ keysResult = NoResult
    /\ sourcesRead = {}
    /\ envCall = NoEnvCall
    /\ appURL = ""

InitConfig ==
    /\ optsKey \in FlagValues
    /\ \E S \in SUBSET SettableNames :
          \E e \in [S -> UNION {EnvValues(n) : n \in S}] :
              /\ \A n \in S : e[n] \in EnvValues(n)
              /\ env = e
    /\ \E f \in FileStates : files = [p \in Paths |-> IF p = "" THEN NoFile ELSE f]
    /\ kpc = "start"
    /\ keyFile = ""
    /\ keysResult = NoResult
    /\ sourcesRead = {}
    /\ envCall = NoEnvCall
    /\ appURL = ""

\* os.LookupEnv(name)
LookupEnv(name) ==
    IF name \in DOMAIN env
    THEN [value |-> env[name], exists |-> TRUE]
    ELSE [value |-> "", exists |-> FALSE]

GetEnvSkipsEmpty(key) ==
    IF LookupEnv(AgentPrefix \o key).exists /\ LookupEnv(AgentPrefix \o key).value # ""
    THEN LookupEnv(AgentPrefix \o key)
    ELSE LookupEnv(key)

\* GetEnv of the agent: the BESZEL_AGENT_ variable if it exists, otherwise
\* the unprefixed one
GetEnv(key) ==
    IF LookupEnv(AgentPrefix \o key).exists
    THEN LookupEnv(AgentPrefix \o key)
    ELSE LookupEnv(key)

\* GetEnv of the hub: the BESZEL_HUB_ variable if it exists, otherwise the
\* unprefixed one
HubGetEnv(key) ==
    IF LookupEnv(HubPrefix \o key).exists
    THEN LookupEnv(HubPrefix \o key)
    ELSE LookupEnv(key)

\* A call of the agent's GetEnv
GetEnvCall(key) ==
    /\ envCall' = [fn |-> "agent", key |-> key, value |-> GetEnv(key).value,
                   exists |-> GetEnv(key).exists]
    /\ UNCHANGED <<optsKey, env, files, kpc, keyFile, keysResult, sourcesRead, appURL,
                   notConfigVars>>

\* A call of the hub's GetEnv
HubGetEnvCall(key) ==
    /\ envCall' = [fn |-> "hub", key |-> key, value |-> HubGetEnv(key).value,
                   exists |-> HubGetEnv(key).exists]
    /\ UNCHANGED <<optsKey, env, files, kpc, keyFile, keysResult, sourcesRead, appURL,
                   notConfigVars>>

\* NewHub: hub.appURL, _ = GetEnv("APP_URL")
NewHub ==
    /\ appURL' = HubGetEnv("APP_URL").value
    /\ envCall' = [fn |-> "hub", key |-> "APP_URL", value |-> HubGetEnv("APP_URL").value,
                   exists |-> HubGetEnv("APP_URL").exists]
    /\ UNCHANGED <<optsKey, env, files, kpc, keyFile, keysResult, sourcesRead,
                   notConfigVars>>

\* return agent.ParseKeys(input): the keys and the error are those of the
\* call
ParseKeys(input) == [from |-> "ParseKeys", input |-> input, err |-> ""]

LoadFlagSkipped ==
    /\ kpc = "start"
    /\ sourcesRead' = sourcesRead \cup {"flag"}
    /\ kpc' = "env"
    /\ UNCHANGED <<keysResult, optsKey, env, files, keyFile, envCall, appURL, notConfigVars>>

\* if opts.key != "" { return agent.ParseKeys(opts.key) }
LoadFlag ==
    /\ kpc = "start"
    /\ sourcesRead' = sourcesRead \cup {"flag"}
    /\ IF optsKey # ""
       THEN keysResult' = ParseKeys(optsKey) /\ kpc' = "returned"
       ELSE keysResult' = keysResult /\ kpc' = "env"
    /\ UNCHANGED <<optsKey, env, files, keyFile, envCall, appURL, notConfigVars>>

\* if key, ok := agent.GetEnv("KEY"); ok && key != "" { return agent.ParseKeys(key) }
LoadEnvKey ==
    /\ kpc = "env"
    /\ sourcesRead' = sourcesRead \cup {"KEY"}
    /\ envCall' = [fn |-> "agent", key |-> "KEY", value |-> GetEnv("KEY").value,
                   exists |-> GetEnv("KEY").exists]
    /\ IF GetEnv("KEY").exists /\ GetEnv("KEY").value # ""
       THEN keysResult' = ParseKeys(GetEnv("KEY").value) /\ kpc' = "returned"
       ELSE keysResult' = keysResult /\ kpc' = "keyfile"
    /\ UNCHANGED <<optsKey, env, files, keyFile, appURL, notConfigVars>>

\* keyFile, ok := agent.GetEnv("KEY_FILE"); if !ok { return nil, no key provided }
LoadKeyFileName ==
    /\ kpc = "keyfile"
    /\ sourcesRead' = sourcesRead \cup {"KEY_FILE"}
    /\ envCall' = [fn |-> "agent", key |-> "KEY_FILE", value |-> GetEnv("KEY_FILE").value,
                   exists |-> GetEnv("KEY_FILE").exists]
    /\ keyFile' = GetEnv("KEY_FILE").value
    /\ IF ~GetEnv("KEY_FILE").exists
       THEN keysResult' = NoKeyProvided /\ kpc' = "returned"
       ELSE keysResult' = keysResult /\ kpc' = "readfile"
    /\ UNCHANGED <<optsKey, env, files, appURL, notConfigVars>>

\* pubKey, err := os.ReadFile(keyFile); if err != nil { return nil, failed to
\* read key file }; return agent.ParseKeys(string(pubKey))
LoadReadFile ==
    /\ kpc = "readfile"
    /\ sourcesRead' = sourcesRead \cup {"file"}
    /\ keysResult' = IF files[keyFile].readable
                     THEN ParseKeys(files[keyFile].content)
                     ELSE FailedToReadKeyFile
    /\ kpc' = "returned"
    /\ UNCHANGED <<optsKey, env, files, keyFile, envCall, appURL, notConfigVars>>

ConfigNext ==
    \/ \E key \in EnvKeys : GetEnvCall(key)
    \/ \E key \in EnvKeys : HubGetEnvCall(key)
    \/ NewHub
    \/ LoadFlag
    \/ LoadEnvKey
    \/ LoadKeyFileName
    \/ LoadReadFile

(***************************************************************************)
(* The hub's key pair: Hub.GetSSHKey.                                      *)
(***************************************************************************)
\* A file: key is the number of the key pair its content is of, 0 for the
\* pair that was there before the hub started and -1 for no key; nl tells
\* that the content ends with a newline
AbsentFile == [exists |-> FALSE, readable |-> FALSE, key |-> -1, nl |-> FALSE]

ExistingFiles ==
    {[exists |-> TRUE, readable |-> r, key |-> 0, nl |-> n] : r \in BOOLEAN, n \in BOOLEAN}

NoKey == [key |-> -1, nl |-> FALSE]

\* GetSSHKey has not returned
NoSSHResult == [returned |-> FALSE, key |-> -1, err |-> FALSE]

\* return nil, err
SSHError == [returned |-> TRUE, key |-> -1, err |-> TRUE]

\* No request to /api/beszel/getkey has been made
NoResponse == [auth |-> FALSE, status |-> "none", body |-> NoKey, disclosed |-> FALSE]

SSHKeyAtRest ==
    /\ privFile = AbsentFile
    /\ pubFile = AbsentFile
    /\ spc = "start"
    /\ sshResult = NoSSHResult
    /\ hPubKey = NoKey
    /\ keysGenerated = 0
    /\ sshCalls = 1
    /\ written = {}
    /\ privAtStart = AbsentFile
    /\ pubAtStart = AbsentFile
    /\ firstKey = -1
    /\ apiResponse = NoResponse

InitSSHKey ==
    /\ privFile \in {AbsentFile} \cup ExistingFiles
    /\ pubFile \in {AbsentFile} \cup ExistingFiles
    /\ spc = "start"
    /\ sshResult = NoSSHResult
    /\ hPubKey = NoKey
    /\ keysGenerated = 0
    /\ sshCalls = 1
    /\ written = {}
    /\ privAtStart = privFile
    /\ pubAtStart = pubFile
    /\ firstKey = -1
    /\ apiResponse = NoResponse

\* os.ReadFile(path) returns no error
CanRead(file) == file.exists /\ file.readable

\* strings.TrimSuffix(content, "\n")
TrimSuffix(file) == [key |-> file.key, nl |-> FALSE]

\* os.Create(path): the file exists and is empty; a new file can be read
Create(file) ==
    [exists |-> TRUE, readable |-> (IF file.exists THEN file.readable ELSE TRUE),
     key |-> -1, nl |-> FALSE]

SSHReadExistingNever ==
    /\ spc = "start"
    /\ spc' = "generate"
    /\ UNCHANGED <<sshResult, hPubKey>>
    /\ UNCHANGED <<privFile, pubFile, keysGenerated, sshCalls, written, privAtStart,
                   pubAtStart, firstKey, apiResponse, notSSHKeyVars>>

\* existingKey, err := os.ReadFile(dataDir + "/id_ed25519"); if err == nil: set
\* h.pubKey when the public file can be read, return existingKey
SSHReadExisting ==
    /\ spc = "start"
    /\ IF CanRead(privFile)
       THEN /\ hPubKey' = IF CanRead(pubFile) THEN TrimSuffix(pubFile) ELSE hPubKey
            /\ sshResult' = [returned |-> TRUE, key |-> privFile.key, err |-> FALSE]
            /\ spc' = "returned"
       ELSE /\ spc' = "generate"
            /\ UNCHANGED <<sshResult, hPubKey>>
    /\ UNCHANGED <<privFile, pubFile, keysGenerated, sshCalls, written, privAtStart,
                   pubAtStart, firstKey, apiResponse, notSSHKeyVars>>

\* ed25519.GenerateKey(nil), ssh.MarshalPrivateKey(privKey, "")
SSHGenerate(ok) ==
    /\ spc = "generate"
    /\ IF ok
       THEN keysGenerated' = keysGenerated + 1 /\ spc' = "createPrivate"
            /\ sshResult' = sshResult
       ELSE keysGenerated' = keysGenerated /\ spc' = "returned"
            /\ sshResult' = SSHError
    /\ UNCHANGED <<privFile, pubFile, hPubKey, sshCalls, written, privAtStart, pubAtStart,
                   firstKey, apiResponse, notSSHKeyVars>>

\* privateFile, err := os.Create(dataDir + "/id_ed25519")
SSHCreatePrivate(ok) ==
    /\ spc = "createPrivate"
    /\ IF ok
       THEN /\ privFile' = Create(privFile)
            /\ written' = written \cup {"id_ed25519"}
            /\ spc' = "encodePrivate"
            /\ sshResult' = sshResult
       ELSE /\ spc' = "returned"
            /\ sshResult' = SSHError
            /\ UNCHANGED <<privFile, written>>
    /\ UNCHANGED <<pubFile, hPubKey, keysGenerated, sshCalls, privAtStart, pubAtStart,
                   firstKey, apiResponse, notSSHKeyVars>>

\* pem.Encode(privateFile, privKeyBytes)
SSHEncodePrivate(ok) ==
    /\ spc = "encodePrivate"
    /\ IF ok
       THEN /\ privFile' = [privFile EXCEPT !.key = keysGenerated, !.nl = TRUE]
            /\ spc' = "newPublicKey"
            /\ sshResult' = sshResult
       ELSE /\ spc' = "returned"
            /\ sshResult' = SSHError
            /\ UNCHANGED privFile
    /\ UNCHANGED <<pubFile, hPubKey, keysGenerated, sshCalls, written, privAtStart,
                   pubAtStart, firstKey, apiResponse, notSSHKeyVars>>

\* ssh.NewPublicKey(pubKey); h.pubKey = TrimSuffix(MarshalAuthorizedKey(publicKey))
SSHNewPublicKey(ok) ==
    /\ spc = "newPublicKey"
    /\ IF ok
       THEN /\ hPubKey' = TrimSuffix([key |-> keysGenerated, nl |-> TRUE])
            /\ spc' = "createPublic"
            /\ sshResult' = sshResult
       ELSE /\ spc' = "returned"
            /\ sshResult' = SSHError
            /\ UNCHANGED hPubKey
    /\ UNCHANGED <<privFile, pubFile, keysGenerated, sshCalls, written, privAtStart,
                   pubAtStart, firstKey, apiResponse, notSSHKeyVars>>

\* publicFile, err := os.Create(dataDir + "/id_ed25519.pub")
SSHCreatePublic(ok) ==
    /\ spc = "createPublic"
    /\ IF ok
       THEN /\ pubFile' = Create(pubFile)
            /\ written' = written \cup {"id_ed25519.pub"}
            /\ spc' = "writePublic"
            /\ sshResult' = sshResult
       ELSE /\ spc' = "returned"
            /\ sshResult' = SSHError
            /\ UNCHANGED <<pubFile, written>>
    /\ UNCHANGED <<privFile, hPubKey, keysGenerated, sshCalls, privAtStart, pubAtStart,
                   firstKey, apiResponse, notSSHKeyVars>>

\* publicFile.Write(pubKeyBytes)
SSHWritePublic(ok) ==
    /\ spc = "writePublic"
    /\ IF ok
       THEN /\ pubFile' = [pubFile EXCEPT !.key = keysGenerated, !.nl = TRUE]
            /\ spc' = "reread"
            /\ sshResult' = sshResult
       ELSE /\ spc' = "returned"
            /\ sshResult' = SSHError
            /\ UNCHANGED pubFile
    /\ UNCHANGED <<privFile, hPubKey, keysGenerated, sshCalls, written, privAtStart,
                   pubAtStart, firstKey, apiResponse, notSSHKeyVars>>

\* existingKey, err = os.ReadFile(dataDir + "/id_ed25519"); return it, or nil, err
SSHReread ==
    /\ spc = "reread"
    /\ sshResult' = IF CanRead(privFile)
                    THEN [returned |-> TRUE, key |-> privFile.key, err |-> FALSE]
                    ELSE SSHError
    /\ spc' = "returned"
    /\ UNCHANGED <<privFile, pubFile, hPubKey, keysGenerated, sshCalls, written,
                   privAtStart, pubAtStart, firstKey, apiResponse, notSSHKeyVars>>

\* The hub is started again: a new Hub calls GetSSHKey
GetSSHKeyAgain ==
    /\ spc = "returned"
    /\ sshCalls < MaxKeyCalls
    /\ sshCalls' = sshCalls + 1
    /\ spc' = "start"
    /\ sshResult' = NoSSHResult
    /\ hPubKey' = NoKey
    /\ written' = {}
    /\ privAtStart' = privFile
    /\ pubAtStart' = pubFile
    /\ firstKey' = IF firstKey = -1 /\ ~sshResult.err THEN sshResult.key ELSE firstKey
    /\ UNCHANGED <<privFile, pubFile, keysGenerated, apiResponse, notSSHKeyVars>>

\* GET /api/beszel/getkey, once the hub has its key.  info, _ :=
\* e.RequestInfo(): the error is dropped; infoNil tells that RequestInfo
\* failed and returned no info, and info.Auth then panics.  Otherwise
\* info.Auth is nil exactly when the request is not authenticated (auth).
GetKey(auth, infoNil) ==
    /\ spc = "returned" /\ ~sshResult.err
    /\ apiResponse' =
          IF infoNil
          THEN [auth |-> auth, status |-> "panic", body |-> NoKey, disclosed |-> FALSE]
          ELSE IF ~auth
          THEN [auth |-> auth, status |-> "Forbidden", body |-> NoKey, disclosed |-> FALSE]
          ELSE [auth |-> auth, status |-> "OK", body |-> hPubKey, disclosed |-> TRUE]
    /\ UNCHANGED <<privFile, pubFile, spc, sshResult, hPubKey, keysGenerated, sshCalls,
                   written, privAtStart, pubAtStart, firstKey, notSSHKeyVars>>

SSHKeyNext ==
    \/ SSHReadExisting
    \/ \E ok \in BOOLEAN : SSHGenerate(ok)
    \/ \E ok \in BOOLEAN : SSHCreatePrivate(ok)
    \/ \E ok \in BOOLEAN : SSHEncodePrivate(ok)
    \/ \E ok \in BOOLEAN : SSHNewPublicKey(ok)
    \/ \E ok \in BOOLEAN : SSHCreatePublic(ok)
    \/ \E ok \in BOOLEAN : SSHWritePublic(ok)
    \/ SSHReread
    \/ GetSSHKeyAgain
    \/ \E auth \in BOOLEAN, infoNil \in BOOLEAN : GetKey(auth, infoNil)

(***************************************************************************)
(* The start of the hub and its cron jobs: StartHub, registerCronJobs.     *)
(***************************************************************************)
\* The minutes of the hour a cron expression of registerCronJobs is due in;
\* its hour, day and month fields are all "*"
CronMinutes(expr) ==
    IF expr = "8 * * * *" THEN {8}
    ELSE IF expr = "*/10 * * * *" THEN {m \in 0..59 : m % 10 = 0}
    ELSE {}

\* The job id is registered and due in minute m
Due(id, m) == id \in DOMAIN cronJobs /\ (m % 60) \in CronMinutes(cronJobs[id])

HubAtRest ==
    /\ minute = 0
    /\ serveStep = "initialize"
    /\ stepsDone = {}
    /\ cronJobs = << >>
    /\ registeredAt = -1
    /\ deleteRuns = {}
    /\ createRuns = {}

InitHub == HubAtRest

\* A step of the hook other than registerCronJobs returns: nil, and the hook
\* goes on to the step next, or an error, which the hook returns
HookStep(step, next, ok) ==
    /\ serveStep = step
    /\ IF ok
       THEN stepsDone' = stepsDone \cup {step} /\ serveStep' = next
       ELSE stepsDone' = stepsDone /\ serveStep' = "failed"
    /\ UNCHANGED <<minute, cronJobs, registeredAt, deleteRuns, createRuns, notHubVars>>

\* if err := h.initialize(e); err != nil { return err }
initialize(ok) == HookStep("initialize", "syncSystemsWithConfig", ok)

\* if err := syncSystemsWithConfig(e); err != nil { return err }
syncSystemsWithConfig(ok) == HookStep("syncSystemsWithConfig", "registerApiRoutes", ok)

\* if err := h.registerApiRoutes(e); err != nil { return err }
registerApiRoutes(ok) == HookStep("registerApiRoutes", "registerCronJobs", ok)

registerCronJobsBothEveryTen ==
    /\ serveStep = "registerCronJobs"
    /\ cronJobs' = [id \in {"delete old records", "create longer records"} |->
                        "*/10 * * * *"]
    /\ registeredAt' = minute
    /\ stepsDone' = stepsDone \cup {"registerCronJobs"}
    /\ serveStep' = "startServer"
    /\ UNCHANGED <<minute, deleteRuns, createRuns, notHubVars>>

\* h.Cron().MustAdd("delete old records", "8 * * * *", ...);
\* h.Cron().MustAdd("create longer records", "*/10 * * * *", ...); return nil
registerCronJobs ==
    /\ serveStep = "registerCronJobs"
    /\ cronJobs' = [id \in {"delete old records", "create longer records"} |->
                        IF id = "delete old records" THEN "8 * * * *" ELSE "*/10 * * * *"]
    /\ registeredAt' = minute
    /\ stepsDone' = stepsDone \cup {"registerCronJobs"}
    /\ serveStep' = "startServer"
    /\ UNCHANGED <<minute, deleteRuns, createRuns, notHubVars>>

\* if err := h.startServer(e); err != nil { return err }
startServer(ok) == HookStep("startServer", "sm.Initialize", ok)

\* if err := h.sm.Initialize(); err != nil { return err }
smInitialize(ok) == HookStep("sm.Initialize", "e.Next", ok)

\* return e.Next()
serveNext(ok) == HookStep("e.Next", "serving", ok)

\* A minute starts: the cron of the hub, while the hub runs, starts every
\* registered job that is due in it
CronTick ==
    /\ serveStep # "failed"
    /\ minute < MaxMinutes
    /\ minute' = minute + 1
    /\ deleteRuns' = IF Due("delete old records", minute + 1)
                     THEN deleteRuns \cup {minute + 1} ELSE deleteRuns
    /\ createRuns' = IF Due("create longer records", minute + 1)
                     THEN createRuns \cup {minute + 1} ELSE createRuns
    /\ UNCHANGED <<serveStep, stepsDone, cronJobs, registeredAt, notHubVars>>

HubNext ==
    \/ \E ok \in BOOLEAN : initialize(ok)
    \/ \E ok \in BOOLEAN : syncSystemsWithConfig(ok)
    \/ \E ok \in BOOLEAN : registerApiRoutes(ok)
    \/ registerCronJobs
    \/ \E ok \in BOOLEAN : startServer(ok)
    \/ \E ok \in BOOLEAN : smInitialize(ok)
    \/ \E ok \in BOOLEAN : serveNext(ok)
    \/ CronTick

(***************************************************************************)
(* Properties of the alert engine.                                         *)
(***************************************************************************)
\* The outage of r's system that is in progress has lasted r's delay, or an
\* earlier outage did.
ReachedDelay(r) ==
    \/ everLong[r]
    \/ /\ status[AlertSystem(r)] = "down"
       /\ downAt[AlertSystem(r)] >= 0
       /\ now - downAt[AlertSystem(r)] >= delayToNotification(r)

\* C1: flap suppression.  While no outage of a rule's system has lasted
\* max(1, M) minutes + 10 seconds, no "down" notification is sent for the
\* rule, during the outage or after the recovery (every lookup of the alert
\* records having succeeded).
C1_NoDownForShortOutage ==
    \A r \in alerts :
        (downSent[r] > 0 /\ ~lookupFailed[AlertSystem(r)]) => ReachedDelay(r)

\* No task, tick or call is waiting, and none has been kept waiting while
\* time passed: the worker and the calls have kept up with the clock.
Quiet == ~stalled /\ ~Waiting

\* C2 as claimed: once an outage longer than max(1, M) minutes + 10 seconds
\* has ended and its up-transition has been handled, with the worker never
\* stopped and never behind the clock, exactly one "down" and exactly one
\* "up" notification were sent for the rule.
C2_LongOutageOneDownOneUp ==
    \A r \in alerts :
        ( /\ lastOutage[r] = "long"
          /\ Quiet
          /\ ~lookupFailed[AlertSystem(r)]
          /\ stopChan = "open" )
        => (downSent[r] = 1 /\ upSent[r] = 1)

\* The step is the worker's sweep (case <-tick).
IsSweep == workerRunning /\ tickReady /\ ~tickReady'

\* The step is handleSystemUp examining alert record r.
IsUpLoad(r) ==
    LET c == hsa[AlertSystem(r)]
    IN  /\ c.pc = "load" /\ c.newStatus = "up" /\ Head(c.records) = r
        /\ hsa'[AlertSystem(r)] # c

\* C2 as amended: a sweep tick sends exactly one "down" notification for a
\* rule, and removes its entry, exactly when the rule has a pending entry
\* whose expiry is earlier than the time of the sweep; an up-transition sends
\* exactly one "up" notification for a rule exactly when it finds no pending
\* entry for the rule, and none when it finds one.
C2_SweepFiresUpNotifies ==
    [][\A r \in AlertIds :
         /\ (downSent'[r] = downSent[r] + 1)
                <=> (IsSweep /\ r \in DOMAIN pendingAlerts /\ now > pendingAlerts[r].expireTime)
         /\ (downSent'[r] = downSent[r] + 1) => r \notin DOMAIN pendingAlerts'
         /\ (downSent'[r] > downSent[r]) => (downSent'[r] = downSent[r] + 1)
         /\ (upSent'[r] = upSent[r] + 1) <=> (IsUpLoad(r) /\ r \notin DOMAIN pendingAlerts)
         /\ (upSent'[r] > upSent[r]) => (upSent'[r] = upSent[r] + 1)
      ]_vars

\* Witness of C2: a "down" notification was sent for a rule in an outage
\* that reached the delay, and the up-transition then sent one "up".
C2_Witness ==
    \E r \in alerts : downSent[r] = 1 /\ upSent[r] = 1 /\ lastOutage[r] = "long"

\* C4: when the up-transition finds the rule's alert pending and not yet
\* expired, no notification of any kind is sent for the rule in that outage.
C4_EarlyUpNoNotification ==
    \A r \in alerts :
        (earlyUp[r] /\ ~lookupFailed[AlertSystem(r)])
            => (downSent[r] = 0 /\ upSent[r] = 0)

\* C5: every "up" notification for a rule is preceded by a "down"
\* notification sent for the rule since the last down-transition of its
\* system.
C5_UpOnlyAfterDown ==
    [][\A r \in AlertIds : (upSent'[r] = upSent[r] + 1) => downSent[r] >= 1]_vars

\* C6 as claimed: a pending entry exists only while its expiry time has not
\* passed (stated for the states where the entry's system is believed down,
\* the worker and the calls have kept up with the clock and every lookup of
\* the alert records has succeeded).
C6_PendingOnlyWhileDownAndUnexpired ==
    \A r \in DOMAIN pendingAlerts :
        (Quiet /\ ~lookupFailed[AlertSystem(r)] /\ status[AlertSystem(r)] = "down")
            => now <= pendingAlerts[r].expireTime

\* The step is the worker taking a task from the queue.
IsDequeue == workerRunning /\ alertQueue # << >> /\ alertQueue' = Tail(alertQueue)

\* C6 as amended: a pending entry is created only by the worker dequeuing a
\* schedule task, which only a call handling a down-transition enqueues; it
\* expires max(1, M) minutes + 10 seconds after that dequeue; and it is
\* removed only by the worker dequeuing a cancel task for the rule or by a
\* sweep at a time later than its expiry.
C6_PendingLifetime ==
    [][ /\ \A r \in AlertIds :
             /\ (r \notin DOMAIN pendingAlerts /\ r \in DOMAIN pendingAlerts')
                   => /\ IsDequeue
                      /\ Head(alertQueue).action = "schedule"
                      /\ Head(alertQueue).alertRecord = r
                      /\ pendingAlerts'[r].expireTime = now + delayToNotification(r)
             /\ (r \in DOMAIN pendingAlerts /\ r \notin DOMAIN pendingAlerts')
                   => \/ /\ IsDequeue
                         /\ Head(alertQueue).action = "cancel"
                         /\ Head(alertQueue).alertRecord = r
                      \/ IsSweep /\ now > pendingAlerts[r].expireTime
        /\ (Len(alertQueue') > Len(alertQueue))
             => LET t == alertQueue'[Len(alertQueue')]
                    c == hsa[AlertSystem(t.alertRecord)]
                IN  /\ c.pc = "send"
                    /\ t.action = (IF c.newStatus = "down" THEN "schedule" ELSE "cancel")
                    /\ status[AlertSystem(t.alertRecord)] = c.newStatus
      ]_vars

\* Witness of C6: an entry the worker stored when it dequeued the schedule
\* task of a down-transition is still pending after its expiry, the next
\* sweep not being due yet.
C6_Witness ==
    \E r \in DOMAIN pendingAlerts :
        /\ status[AlertSystem(r)] = "down"
        /\ pendingAlerts[r].expireTime = downAt[AlertSystem(r)] + delayToNotification(r)
        /\ now > pendingAlerts[r].expireTime
        /\ Quiet

\* C7: an entry, once pending, is left unchanged (expiry included) for as
\* long as it is pending, whatever tasks the worker dequeues (every lookup of
\* the alert records having succeeded).
C7_PendingEntryUnchanged ==
    [][\A r \in DOMAIN pendingAlerts :
          (r \in DOMAIN pendingAlerts' /\ ~lookupFailed[AlertSystem(r)])
              => pendingAlerts'[r] = pendingAlerts[r]]_vars


\* C13 as claimed: with a minimum of 1 minute and the down-transition at T0,
\* the sweep tick at T0 + 70 seconds sends the "down" notification of the
\* rule still pending (the worker and the calls having kept up with the
\* clock, every lookup having succeeded).
C13_SweepAtSeventyFires ==
    [][\A r \in alerts :
         ( /\ IsSweep
           /\ AlertMin(r) = 1
           /\ r \in DOMAIN pendingAlerts
           /\ status[AlertSystem(r)] = "down"
           /\ downAt[AlertSystem(r)] >= 0
           /\ now = downAt[AlertSystem(r)] + MinuteSeconds + BufferSeconds
           /\ ~stalled /\ ~lookupFailed[AlertSystem(r)] )
         => downSent'[r] = downSent[r] + 1
      ]_vars

\* C13 as amended: for a rule with a minimum of 1 minute, the entry stored
\* when the worker dequeues the schedule task at time T expires at T + 70
\* seconds; a sweep tick at or before the expiry leaves the entry and sends
\* nothing; a sweep tick later than the expiry sends exactly one "down"
\* notification and removes the entry; and an up-transition that finds no
\* entry for the rule sends exactly one "up" notification.
C13_SweepAfterSeventyFires ==
    [][\A r \in AlertIds :
         AlertMin(r) = 1 =>
           /\ ( /\ IsDequeue
                /\ Head(alertQueue).action = "schedule"
                /\ Head(alertQueue).alertRecord = r )
              => /\ r \in DOMAIN pendingAlerts'
                 /\ pendingAlerts'[r].expireTime = now + MinuteSeconds + BufferSeconds
           /\ (IsSweep /\ r \in DOMAIN pendingAlerts /\ now <= pendingAlerts[r].expireTime)
              => /\ r \in DOMAIN pendingAlerts'
                 /\ pendingAlerts'[r] = pendingAlerts[r]
                 /\ downSent'[r] = downSent[r]
           /\ (IsSweep /\ r \in DOMAIN pendingAlerts /\ now > pendingAlerts[r].expireTime)
              => /\ r \notin DOMAIN pendingAlerts'
                 /\ downSent'[r] = downSent[r] + 1
           /\ (IsUpLoad(r) /\ r \notin DOMAIN pendingAlerts)
              => /\ upSent'[r] = upSent[r] + 1
                 /\ pendingAlerts' = pendingAlerts
      ]_vars

\* Witness of C13: for the rule with a minimum of 1 minute, a sweep later
\* than 70 seconds after the down-transition has sent "down", and the
\* up-transition that followed has sent "up"; nothing is waiting.
C13_Witness ==
    /\ "r1" \in alerts /\ AlertMin("r1") = 1
    /\ status[AlertSystem("r1")] = "up"
    /\ downSent["r1"] = 1 /\ upSent["r1"] = 1
    /\ now > MinuteSeconds + BufferSeconds
    /\ ~Waiting /\ pendingAlerts = << >>

\* C18: while a system is believed down, whether it was "up" or "pending"
\* before, each of its rules that has sent no "down" notification has a
\* pending entry once the worker has processed the queue (the worker not
\* stopped and never behind the clock, every lookup having succeeded).
C18_DownTransitionSchedules ==
    \A r \in alerts :
        ( /\ status[AlertSystem(r)] = "down"
          /\ downSent[r] = 0
          /\ Quiet
          /\ ~lookupFailed[AlertSystem(r)]
          /\ stopChan = "open" /\ workerRunning )
        => r \in DOMAIN pendingAlerts

\* An up-transition has enqueued a cancel for rule r, the next task of the
\* queue, and r's entry has expired.
CancelRacesSweep(r) ==
    /\ r \in DOMAIN pendingAlerts
    /\ now > pendingAlerts[r].expireTime
    /\ alertQueue # << >>
    /\ Head(alertQueue) = cancelTask(r)

\* C20: with a cancel for a rule queued and the rule's entry expired, the
\* worker dequeuing the cancel removes the entry and sends no "down"
\* notification; the worker handling the sweep tick sends exactly one "down"
\* notification for the rule, removes the entry and leaves the cancel
\* queued; no other step changes the entry, the cancel or the count of
\* notifications; and a cancel dequeued when the rule has no entry leaves
\* the map unchanged and sends nothing.
C20_CancelSweepRace ==
    [][\A r \in AlertIds :
         /\ (CancelRacesSweep(r) /\ IsDequeue)
              => /\ r \notin DOMAIN pendingAlerts'
                 /\ downSent' = downSent
         /\ (CancelRacesSweep(r) /\ IsSweep)
              => /\ r \notin DOMAIN pendingAlerts'
                 /\ downSent'[r] = downSent[r] + 1
                 /\ alertQueue' = alertQueue
         /\ (CancelRacesSweep(r) /\ ~IsDequeue /\ ~IsSweep)
              => /\ r \in DOMAIN pendingAlerts'
                 /\ pendingAlerts'[r] = pendingAlerts[r]
                 /\ downSent'[r] = downSent[r]
                 /\ alertQueue' # << >> /\ Head(alertQueue') = cancelTask(r)
         /\ ( /\ IsDequeue
              /\ Head(alertQueue) = cancelTask(r)
              /\ r \notin DOMAIN pendingAlerts )
              => /\ pendingAlerts' = pendingAlerts
                 /\ downSent' = downSent
      ]_vars

\* Witness of C20: the system is up again, the cancel of its rule is queued,
\* the rule's entry has expired and a tick is waiting: the worker may take
\* either.
C20_Witness ==
    \E r \in alerts :
        /\ CancelRacesSweep(r)
        /\ tickReady /\ workerRunning
        /\ status[AlertSystem(r)] = "up"

C21_SweepRemovesExactlyExpired ==
    [][IsSweep =>
         /\ \A r \in DOMAIN pendingAlerts :
               IF pendingAlerts[r].expireTime < now
               THEN r \notin DOMAIN pendingAlerts' /\ downSent'[r] = downSent[r] + 1
               ELSE /\ r \in DOMAIN pendingAlerts'
                    /\ pendingAlerts'[r] = pendingAlerts[r]
                    /\ downSent'[r] = downSent[r]
         /\ DOMAIN pendingAlerts' \subseteq DOMAIN pendingAlerts
         /\ \A r \in AlertIds \ DOMAIN pendingAlerts : downSent'[r] = downSent[r]
         /\ alertQueue' = alertQueue /\ upSent' = upSent
      ]_vars

\* Witness of C21: a sweep has sent "down" for one rule and removed its
\* entry, and has left the entry of the other rule, which expires at the
\* time of that sweep.
C21_Witness ==
    /\ "r1" \notin DOMAIN pendingAlerts /\ downSent["r1"] = 1
    /\ "r2" \in DOMAIN pendingAlerts /\ downSent["r2"] = 0
    /\ pendingAlerts["r2"].expireTime = now
    /\ ~tickReady /\ workerRunning

\* C22: a sweep removes every expired entry whether or not sending its
\* "down" notification fails, so a failed notification is not attempted
\* again: a "down" is sent for a rule only by a sweep that finds its entry
\* and removes it, and an entry comes into the map only by the worker
\* dequeuing a schedule task.  The failure does not end the worker: it runs
\* until Stop is called, and the sweep leaves the queue as it is.
C22_FailedSendNotRetried ==
    /\ [](stopChan = "open" => workerRunning)
    /\ [][ /\ IsSweep =>
               /\ \A r \in DOMAIN pendingAlerts :
                     pendingAlerts[r].expireTime < now
                        => /\ r \notin DOMAIN pendingAlerts'
                           /\ downSent'[r] = downSent[r] + 1
               /\ workerRunning' /\ alertQueue' = alertQueue
          /\ \A r \in AlertIds :
               /\ (downSent'[r] # downSent[r] /\ downSent'[r] # 0)
                     => /\ IsSweep
                        /\ r \in DOMAIN pendingAlerts /\ r \notin DOMAIN pendingAlerts'
                        /\ downSent'[r] = downSent[r] + 1
               /\ (sendFailed'[r] /\ ~sendFailed[r])
                     => IsSweep /\ r \notin DOMAIN pendingAlerts'
               /\ (r \notin DOMAIN pendingAlerts /\ r \in DOMAIN pendingAlerts')
                     => /\ IsDequeue
                        /\ Head(alertQueue) = scheduleTask(AlertSystem(r), r)
       ]_vars

\* Witness of C22: in a sweep the "down" notification of one rule failed and
\* that of the other did not; both entries are gone and the worker runs.
C22_Witness ==
    /\ sendFailed["r1"] /\ ~sendFailed["r2"]
    /\ downSent["r1"] = 1 /\ downSent["r2"] = 1
    /\ pendingAlerts = << >>
    /\ workerRunning /\ stopChan = "open"

\* max(1, min) minutes + 10 seconds, in seconds
ExpectedDelay(min) == IF min <= 1 THEN 70 ELSE min * 60 + 10

\* C23 as claimed: the expiry of a pending entry scheduled in the outage in
\* progress is the time of the down-transition plus max(1, minimum) minutes
\* plus 10 seconds (every lookup having succeeded).
C23_ExpiryFromDownTransition ==
    \A r \in DOMAIN pendingAlerts :
        ( /\ status[AlertSystem(r)] = "down" /\ downAt[AlertSystem(r)] >= 0
          /\ ~lookupFailed[AlertSystem(r)]
          /\ pendingAlerts[r].expireTime >= downAt[AlertSystem(r)] )
        => pendingAlerts[r].expireTime = downAt[AlertSystem(r)] + ExpectedDelay(AlertMin(r))

\* C23 as the code has it: the schedule task a down-transition enqueues for
\* a rule carries the delay max(1, minimum) minutes plus 10 seconds, 70
\* seconds for a minimum of 1, 0 or less; the expiry of the entry is the
\* time at which the worker dequeues the task plus that delay, which is the
\* time of the down-transition plus the delay or later.
C23_ExpiryFromDequeue ==
    [][ /\ (Len(alertQueue') > Len(alertQueue)
            /\ alertQueue'[Len(alertQueue')].action = "schedule")
          => LET t == alertQueue'[Len(alertQueue')]
             IN  t.delay = ExpectedDelay(AlertMin(t.alertRecord))
        /\ \A r \in AlertIds :
             ( /\ IsDequeue
               /\ Head(alertQueue).action = "schedule"
               /\ Head(alertQueue).alertRecord = r )
             => /\ r \in DOMAIN pendingAlerts'
                /\ pendingAlerts'[r].expireTime = now + ExpectedDelay(AlertMin(r))
                /\ (status[AlertSystem(r)] = "down" /\ downAt[AlertSystem(r)] >= 0)
                     => pendingAlerts'[r].expireTime
                           >= downAt[AlertSystem(r)] + ExpectedDelay(AlertMin(r))
      ]_vars

\* Witness of C23: the rules with minimum 0, -1 and 2 are pending; the one
\* with minimum -1 was stored later than the down-transition and expires 70
\* seconds after it was stored.
C23_Witness ==
    /\ DOMAIN pendingAlerts = {"r2", "r3", "r4"}
    /\ downAt["h1"] = 0 /\ status["h1"] = "down"
    /\ pendingAlerts["r2"].expireTime = 70
    /\ pendingAlerts["r3"].expireTime = 77
    /\ pendingAlerts["r4"].expireTime > 130

\* The time of the first tick later than time e
TickAfter(e) == TickSeconds * (e \div TickSeconds + 1)

\* The first time of the clock at or after time t
ClockAt(t) == ClockStep * ((t + ClockStep - 1) \div ClockStep)

\* r is pending and the clock reaches the sweep tick that follows the expiry
\* of its entry.
SweepInReach(r) ==
    r \in DOMAIN pendingAlerts
        /\ ClockAt(TickAfter(pendingAlerts[r].expireTime)) <= LongTime

\* C24 (for the alert record of the run, r1): with the worker running and its tick case taken whenever a tick
\* stays ready, a pending entry does not stay for ever: it is removed, by a
\* cancel or by a sweep (or replaced by a later schedule), unless the worker
\* is stopped.  A sweep later than the expiry of an entry removes it and
\* sends its "down"; and while the worker has kept up with its ticks, an
\* entry still pending is less than one tick period (13 seconds) past its
\* expiry.
C24_PendingEventuallyRemoved ==
    /\ SweepInReach("r1") ~> (~SweepInReach("r1") \/ ~workerRunning)
    /\ [][\A r \in DOMAIN pendingAlerts :
            (IsSweep /\ now > pendingAlerts[r].expireTime)
               => (r \notin DOMAIN pendingAlerts' /\ downSent'[r] = downSent[r] + 1)
        ]_vars
    /\ [](\A r \in DOMAIN pendingAlerts :
            (Quiet /\ workerRunning) => now - pendingAlerts[r].expireTime < TickSeconds)

\* Witness of C24: an entry that was pending at its expiry has been removed
\* by the sweep of the next tick, the worker having kept up with the clock,
\* the system still down.
C24_Witness ==
    /\ status["h1"] = "down" /\ downAt["h1"] = 0
    /\ "r1" \notin DOMAIN pendingAlerts /\ downSent["r1"] = 1
    /\ now > MinuteSeconds + BufferSeconds /\ now <= MinuteSeconds + BufferSeconds + 2 * ClockStep
    /\ Quiet /\ workerRunning

\* The status of h goes from "down" to "up" or from "up" to "down".
RealChange(h) ==
    \/ status[h] = "down" /\ status'[h] = "up"
    \/ status[h] = "up" /\ status'[h] = "down"

\* C25: a HandleStatusAlerts call never changes the pending-alert map or
\* the queue and sends no notification itself.  It goes on to
\* handleSystemDown or handleSystemUp only when the status goes from "up" to
\* "down" or from "down" to "up", the lookup of the system's Status alert
\* records succeeds and finds some; with any other pair of statuses, with no
\* such record, or with a failed lookup it returns at once.
C25_NoOpUnlessRealChange ==
    [][\A h \in Systems :
         /\ (status'[h] # status[h] \/ (hsa[h].pc = "idle" /\ hsa'[h].pc # "idle"))
               => /\ pendingAlerts' = pendingAlerts
                  /\ alertQueue' = alertQueue
                  /\ \A r \in AlertIds : downSent'[r] <= downSent[r] /\ upSent'[r] <= upSent[r]
         /\ (hsa[h].pc = "idle" /\ hsa'[h].pc # "idle")
               => /\ RealChange(h)
                  /\ \E r \in alerts : AlertSystem(r) = h
                  /\ lookupFailed'[h] = lookupFailed[h]
                  /\ hsa'[h].newStatus = status'[h]
         /\ (status'[h] # status[h] /\ ~RealChange(h))
               => /\ hsa'[h] = IdleCall
                  /\ downSent' = downSent /\ upSent' = upSent
                  /\ lookupFailed' = lookupFailed
         /\ (~lookupFailed[h] /\ lookupFailed'[h])
               => RealChange(h) /\ hsa'[h] = IdleCall
         /\ (status'[h] # status[h] /\ ~(\E r \in alerts : AlertSystem(r) = h))
               => hsa'[h] = IdleCall
      ]_vars

\* Witness of C25: the system has been given the status "paused" while its
\* rule was pending: the entry is still there, nothing is queued and no
\* notification has been sent.
C25_Witness ==
    /\ status["h1"] = "paused" /\ hsa["h1"] = IdleCall
    /\ "r1" \in DOMAIN pendingAlerts
    /\ alertQueue = << >>
    /\ downSent["r1"] = 0 /\ upSent["r1"] = 0

(***************************************************************************)
(* Properties of the agent.                                                *)
(***************************************************************************)
\* The step is caller c's cache test in gatherStats.
IsCheckCache(c) == call[c].pc = "body" /\ call'[c].pc # "body"

InLock(c) == call[c].pc \in {"body", "stats", "docker", "extrafs", "unlock"}

\* C8: at most one caller is between acquiring and releasing the agent lock,
\* that caller is the holder of the lock, and the data, the last user, the
\* last update time and the filesystem stats change only in a step of the
\* caller that holds the lock.
C8_SingleFlight ==
    [][ /\ \A c1, c2 \in Callers : (InLock(c1)' /\ InLock(c2)') => c1 = c2
        /\ \A c \in Callers : InLock(c)' => mu' = c
        /\ (<<data, updated, sshUser, fsStats, collections>>'
               # <<data, updated, sshUser, fsStats, collections>>)
             => \E c \in Callers :
                   /\ InLock(c) /\ mu = c
                   /\ \A d \in Callers \ {c} : call'[d] = call[d] /\ ~InLock(d)
      ]_vars

\* Witness of C8: one caller is collecting while the other waits for the
\* lock.
C8_Witness ==
    \E c1, c2 \in Callers :
        /\ c1 # c2
        /\ call[c1].pc = "docker" /\ mu = c1
        /\ call[c2].pc = "lock"

\* C9: what a caller received from gatherStats is what the snapshot it
\* holds still contains, for as long as the caller reads it.
C9_SnapshotNeverMutated ==
    \A c \in Callers : call[c].pc = "reading" => data = received[c]

\* The step is the end of caller c's collection: gatherStats is about to
\* return a.data.
IsCollected(c) == call[c].pc = "extrafs" /\ call'[c].pc = "unlock"

\* C16: a collection completes whether or not the container stats could be
\* got.  When they could not, the snapshot it returns has no container
\* section (not the one of an earlier collection); when they could, it has
\* the one of this collection.  In both cases the snapshot has the system
\* stats of this collection and the extra filesystems (the non-root
\* filesystems with a positive total), and the last user and the last
\* update time are set to the caller's user and the current time.
C16_DockerErrorOmitsContainers ==
    [][\A c \in Callers :
         /\ (call[c].pc = "docker" /\ call'[c].pc # "docker") => call'[c].pc = "extrafs"
         /\ IsCollected(c)
              => /\ data'.stats = collections /\ collections >= 1
                 /\ data'.containers = (IF call[c].dockerErr THEN {} ELSE {collections})
                 /\ data'.extraFs = {n \in FsNames : n # "root" /\ fsStats[n].DiskTotal > 0}
                 /\ sshUser' = call[c].user
                 /\ updated' = [zero |-> FALSE, sec |-> agentNow]
                 /\ call'[c].fresh
      ]_vars

\* Witness of C16: a second collection, in which the container stats could
\* not be got, is returning a snapshot without container section, with an
\* extra filesystem.
C16_Witness ==
    \E c \in Callers :
        /\ call[c].pc = "unlock" /\ call[c].fresh /\ call[c].dockerErr
        /\ collections = 2 /\ data.stats = 2
        /\ data.containers = {} /\ data.extraFs = {"sdb1"}
        /\ sshUser = call[c].user

\* C26: a call that returns the cached snapshot changes nothing from its
\* cache test to its return: the data, the last update time, the last user,
\* the filesystem stats and the count of collections stay as they are, and
\* what it returns is the snapshot of the last collection.  Its cache test
\* is made less than 60 seconds after that collection ended, and the last
\* update time changes only at the end of a collection, so that cached
\* returns never extend the life of the cache.
C26_CacheHitChangesNothing ==
    [][ /\ \A c \in Callers :
             /\ (IsCheckCache(c) /\ call'[c].pc = "unlock")
                   => /\ ~updated.zero /\ agentNow - updated.sec < cacheTime
                      /\ agentNow >= updated.sec
                      /\ data.stats = collections /\ collections >= 1
                      /\ UNCHANGED <<data, updated, sshUser, fsStats, collections>>
             /\ (call[c].pc = "unlock" /\ ~call[c].fresh /\ call'[c] # call[c])
                   => /\ received'[c] = data /\ data.stats = collections
                      /\ UNCHANGED <<data, updated, sshUser, fsStats, collections>>
        /\ updated' # updated
             => /\ \E c \in Callers : IsCollected(c) /\ call[c].fresh
                /\ updated' = [zero |-> FALSE, sec |-> agentNow]
      ]_vars

\* Witness of C26: 40 seconds after the only collection, one caller reads
\* the snapshot it was returned from the cache and a second one is being
\* returned it from the cache; the last update time is still that of the
\* collection.
C26_Witness ==
    \E c1, c2 \in Callers :
        /\ c1 # c2
        /\ call[c1].pc = "reading" /\ ~call[c1].fresh
        /\ call[c2].pc = "unlock" /\ ~call[c2].fresh
        /\ collections = 1 /\ received[c1].stats = 1
        /\ ~updated.zero /\ agentNow - updated.sec = 2 * AgentClockStep

\* C30: the extra filesystems of a snapshot a collection is returning are
\* exactly the tracked filesystems that are not the root filesystem and whose
\* total size, as this collection found it, is greater than zero; the root
\* filesystem and a filesystem of size zero are never among them.
C30_ExtraFsExactlyNonRootNonEmpty ==
    \A c \in Callers :
        (call[c].pc = "unlock" /\ call[c].fresh)
            => /\ \A n \in FsNames :
                    n \in data.extraFs <=> (~fsStats[n].Root /\ fsStats[n].DiskTotal > 0)
               /\ data.extraFs \subseteq FsNames
               /\ "root" \notin data.extraFs
               /\ \A n \in data.extraFs : fsStats[n].DiskTotal # 0

\* Witness of C30: a second collection, which found the root filesystem with
\* a positive size and the other one with size zero, is returning a snapshot
\* with no extra filesystem, while another caller reads a copy of the first
\* snapshot, which had the other filesystem.
C30_Witness ==
    \E c1, c2 \in Callers :
        /\ call[c1].pc = "reading" /\ received[c1].extraFs = {"sdb1"}
        /\ call[c2].pc = "unlock" /\ call[c2].fresh
        /\ collections = 2
        /\ fsStats["root"].DiskTotal > 0 /\ fsStats["sdb1"].DiskTotal = 0
        /\ data.extraFs = {}

\* C27: no gatherStats call of the program ends in a panic, the call
\* NewAgent makes with a background context included, and a call that has
\* ended does not hold the agent lock.
C27_EveryCallReturnsSnapshot ==
    \A c \in Callers :
        /\ call[c].pc # "panicked"
        /\ call[c].pc \in {"idle", "reading"} => mu # c

(***************************************************************************)
(* Properties of the configuration.                                        *)
(***************************************************************************)
\* The value GetEnv("KEY") finds is not empty.
EnvKeyGiven ==
    IF "BESZEL_AGENT_KEY" \in DOMAIN env
    THEN env["BESZEL_AGENT_KEY"] # ""
    ELSE "KEY" \in DOMAIN env /\ env["KEY"] # ""

EnvKeyValue ==
    IF "BESZEL_AGENT_KEY" \in DOMAIN env THEN env["BESZEL_AGENT_KEY"] ELSE env["KEY"]

\* A key file is named.
KeyFileGiven == "BESZEL_AGENT_KEY_FILE" \in DOMAIN env \/ "KEY_FILE" \in DOMAIN env

KeyFileNamed ==
    IF "BESZEL_AGENT_KEY_FILE" \in DOMAIN env
    THEN env["BESZEL_AGENT_KEY_FILE"]
    ELSE env["KEY_FILE"]

\* C11: the keys loadPublicKeys returns are those of one source, the first
\* of the -key flag, the KEY environment variable and the file KEY_FILE
\* names that is given: with a non-empty flag the environment and the file
\* are not looked at, with an empty flag and a non-empty KEY the file is not
\* looked at, and with an empty flag, an empty or unset KEY and no KEY_FILE
\* the return is an error and no keys.
C11_KeySourcePrecedence ==
    /\ (optsKey # "" /\ kpc # "start") =>
           /\ kpc = "returned" /\ keysResult = ParseKeys(optsKey)
           /\ sourcesRead = {"flag"}
    /\ (optsKey = "" /\ EnvKeyGiven /\ kpc \notin {"start", "env"}) =>
           /\ kpc = "returned" /\ keysResult = ParseKeys(EnvKeyValue)
           /\ sourcesRead = {"flag", "KEY"}
    /\ (optsKey = "" /\ ~EnvKeyGiven /\ KeyFileGiven /\ kpc = "returned") =>
           /\ sourcesRead = {"flag", "KEY", "KEY_FILE", "file"}
           /\ keysResult = IF files[KeyFileNamed].readable
                           THEN ParseKeys(files[KeyFileNamed].content)
                           ELSE FailedToReadKeyFile
    /\ (optsKey = "" /\ ~EnvKeyGiven /\ ~KeyFileGiven /\ kpc = "returned") =>
           /\ keysResult = NoKeyProvided
           /\ "file" \notin sourcesRead
    /\ kpc # "returned" => keysResult = NoResult

\* Witness of C11: the flag is empty, BESZEL_AGENT_KEY is set to the empty
\* string and KEY to a key, a readable key file is named, and the keys
\* returned are those of the file.
C11_Witness ==
    /\ kpc = "returned" /\ optsKey = ""
    /\ "BESZEL_AGENT_KEY" \in DOMAIN env /\ env["BESZEL_AGENT_KEY"] = ""
    /\ "KEY" \in DOMAIN env /\ env["KEY"] # ""
    /\ "KEY_FILE" \in DOMAIN env /\ "BESZEL_AGENT_KEY_FILE" \notin DOMAIN env
    /\ keysResult = ParseKeys("content of key file")

\* What a GetEnv is to return for key under the prefix
Resolved(prefix, key) ==
    IF prefix \o key \in DOMAIN env THEN <<env[prefix \o key], TRUE>>
    ELSE IF key \in DOMAIN env THEN <<env[key], TRUE>>
    ELSE <<"", FALSE>>

\* C17: GetEnv(key) of the agent (of the hub) returns the value of
\* BESZEL_AGENT_<key> (BESZEL_HUB_<key>) when that variable is set, be it to
\* the empty string, otherwise the value of <key>, and exists = false only
\* when neither is set.
C17_PrefixedThenLegacy ==
    /\ envCall.fn = "agent" =>
          /\ <<envCall.value, envCall.exists>> = Resolved(AgentPrefix, envCall.key)
          /\ ~envCall.exists <=> /\ AgentPrefix \o envCall.key \notin DOMAIN env
                                 /\ envCall.key \notin DOMAIN env
    /\ envCall.fn = "hub" =>
          /\ <<envCall.value, envCall.exists>> = Resolved(HubPrefix, envCall.key)
          /\ ~envCall.exists <=> /\ HubPrefix \o envCall.key \notin DOMAIN env
                                 /\ envCall.key \notin DOMAIN env
    /\ appURL # "" => appURL = Resolved(HubPrefix, "APP_URL")[1]

\* Witness of C17: the agent's GetEnv("KEY") has returned the empty string
\* of BESZEL_AGENT_KEY while KEY is set to a key.
C17_Witness ==
    /\ envCall = [fn |-> "agent", key |-> "KEY", value |-> "", exists |-> TRUE]
    /\ "KEY" \in DOMAIN env /\ env["KEY"] # ""

(***************************************************************************)
(* Properties of the hub's key pair.                                       *)
(***************************************************************************)
\* C12: GetSSHKey creates or overwrites a key file only when neither the
\* private nor the public key file exists, and otherwise returns the
\* existing private key.
C12_RegenerateOnlyIfBothAbsent ==
    /\ written # {} => (~privAtStart.exists /\ ~pubAtStart.exists)
    /\ (sshResult.returned /\ ~sshResult.err /\ (privAtStart.exists \/ pubAtStart.exists)) =>
           (sshResult.key = privAtStart.key /\ privAtStart.exists)

\* C12, as the code has it: GetSSHKey creates or overwrites a key file only
\* when the private key file cannot be read, whether or not the public key
\* file exists; when the private key file can be read it returns that key
\* and leaves both files as they are; when it returns a generated key, both
\* files are of that key pair and h.pubKey is its public key.
C12_RegenerateIffPrivateUnreadable ==
    /\ written # {} => ~CanRead(privAtStart)
    /\ CanRead(privAtStart) =>
          /\ privFile = privAtStart /\ pubFile = pubAtStart
          /\ spc \in {"start", "returned"}
          /\ sshResult.returned =>
                /\ sshResult = [returned |-> TRUE, key |-> privAtStart.key, err |-> FALSE]
                /\ hPubKey = (IF CanRead(pubAtStart)
                              THEN [key |-> pubAtStart.key, nl |-> FALSE] ELSE NoKey)
    /\ (~CanRead(privAtStart) /\ sshResult.returned /\ ~sshResult.err) =>
          /\ written = {"id_ed25519", "id_ed25519.pub"}
          /\ sshResult.key = keysGenerated /\ keysGenerated >= 1
          /\ privFile.key = keysGenerated /\ pubFile.key = keysGenerated
          /\ hPubKey = [key |-> keysGenerated, nl |-> FALSE]
    /\ keysGenerated <= sshCalls

\* Witness of C12: the private key file was absent and the public key file
\* present, and GetSSHKey has returned a generated key, with the public key
\* file overwritten.
C12_Witness ==
    /\ ~privAtStart.exists /\ pubAtStart.exists /\ pubAtStart.key = 0
    /\ sshResult.returned /\ ~sshResult.err /\ sshResult.key = 1
    /\ pubFile.key = 1 /\ "id_ed25519.pub" \in written

(***************************************************************************)
(* Properties of the start of the hub and of its cron jobs.                *)
(***************************************************************************)
\* The minutes m+1 .. m+n are all after the registration of the cron jobs
\* and have started.
WindowPassed(m, n) == registeredAt >= 0 /\ m >= registeredAt /\ m + n <= minute

\* C19: the deletion of old records is started exactly once in every 60
\* consecutive minutes and the creation of longer records exactly once in
\* every 10 consecutive minutes that follow the registration of the cron
\* jobs, no job is started before the registration, and the cron jobs are
\* registered only after initialize, syncSystemsWithConfig and
\* registerApiRoutes have returned without error.
C19_CadenceAfterOrderedStart ==
    /\ \A m \in 0..MaxMinutes :
          /\ WindowPassed(m, 60) => Cardinality(deleteRuns \cap ((m + 1)..(m + 60))) = 1
          /\ WindowPassed(m, 10) => Cardinality(createRuns \cap ((m + 1)..(m + 10))) = 1
    /\ \A m \in deleteRuns \cup createRuns : registeredAt >= 0 /\ m > registeredAt
    /\ (cronJobs # << >> \/ registeredAt >= 0) =>
          {"initialize", "syncSystemsWithConfig", "registerApiRoutes"} \subseteq stepsDone

\* Witness of C19: two hours after the registration the hub serves, the
\* deletion has been started twice and the creation twelve times.
C19_Witness ==
    /\ serveStep = "serving"
    /\ registeredAt > 0 /\ minute = registeredAt + 120
    /\ Cardinality(deleteRuns) = 2 /\ Cardinality(createRuns) = 12

\* C28: once a GetSSHKey call has succeeded, every later call returns the
\* same private key, leaves both key files as they are, and leaves h.pubKey
\* equal to the public key of that private key.
C28_StableAcrossCalls ==
    (firstKey >= 0 /\ sshResult.returned)
        => /\ ~sshResult.err /\ sshResult.key = firstKey
           /\ written = {}
           /\ privFile = privAtStart /\ pubFile = pubAtStart
           /\ hPubKey = [key |-> firstKey, nl |-> FALSE]

\* C29: a request to the getkey endpoint that is not authenticated receives
\* a Forbidden error and not the key.
C29_GetKeyOnlyAuthenticated ==
    (apiResponse.status # "none" /\ ~apiResponse.auth)
        => (apiResponse.status = "Forbidden" /\ ~apiResponse.disclosed)

(***************************************************************************)
(* Properties of the liveness probe.                                       *)
(***************************************************************************)
\* C10: Health returns 0 when a server listens on the configured address
\* of the configured network and the connection is established before the
\* dial timeout, and 1 in every other case; it has written and read nothing
\* on the connection, has attempted no authentication, and has closed the
\* connection it opened.
C10_HealthExitCode ==
    hpc = "returned"
        => /\ exitCode \in {0, 1}
           /\ (exitCode = 0)
                <=> (<<hNetwork, hAddr>> \in listening /\ dialDelay < DialTimeoutSeconds)
           /\ bytesSent = 0 /\ bytesRead = 0 /\ ~authAttempted
           /\ conn = (IF exitCode = 0 THEN "closed" ELSE "none")

\* Witness of C10: Health returned 0 for a unix socket, the connection
\* having been established just before the dial timeout, and has closed it.
C10_Witness ==
    /\ hpc = "returned" /\ exitCode = 0 /\ conn = "closed"
    /\ hNetwork = "unix" /\ dialDelay = DialTimeoutSeconds - 1

(***************************************************************************)
(* The specifications: the alert engine, the agent and the probe, each     *)
(* with the other two at rest.                                             *)
(***************************************************************************)
HealthAtRest ==
    /\ hNetwork = "tcp" /\ hAddr = ":45876" /\ listening = {} /\ dialDelay = 0

\* The alert engine over the long clock starts with no alert record, with
\* one, or with two.
InitLongRun ==
    InitAlerts /\ alerts \in LongRunAlerts /\ InitAgent /\ InitHealth /\ HealthAtRest
    /\ ConfigAtRest /\ SSHKeyAtRest /\ HubAtRest

\* The runs of every step of the engine, lookups that fail included, are
\* those with at most one alert record.
Init == InitLongRun /\ alerts \in {{}, {"r1"}}

Next == AlertNext

Spec == Init /\ [][Next]_vars

\* The alert engine followed to the end of its runs, over the short clock:
\* the worker's select takes a case that stays ready.
AlertNextShort ==
    \/ \E h \in Systems, s \in Polled, ok \in BOOLEAN : HandleStatusAlerts(h, s, ok)
    \/ \E h \in Systems : handleSystemDownLoad(h)
    \/ \E h \in Systems : handleSystemDownSend(h)
    \/ \E h \in Systems : handleSystemUpLoad(h)
    \/ \E h \in Systems : handleSystemUpSend(h)
    \/ WorkerTask
    \/ \E failed \in SUBSET DOMAIN pendingAlerts : WorkerTick(failed)
    \/ WorkerStop
    \/ Stop
    \/ AdvanceShort

\* The alert engine over the short clock, HandleStatusAlerts called with
\* every status.
AlertNextAnyStatus ==
    \/ \E h \in Systems, s \in AnyStatus, ok \in BOOLEAN :
          /\ \A r \in AlertIds : upSent[r] < MaxUpSent
          /\ HandleStatusAlerts(h, s, ok)
    \/ \E h \in Systems : handleSystemDownLoad(h)
    \/ \E h \in Systems : handleSystemDownSend(h)
    \/ \E h \in Systems : handleSystemUpLoad(h)
    \/ \E h \in Systems : handleSystemUpSend(h)
    \/ WorkerTask
    \/ \E failed \in SUBSET DOMAIN pendingAlerts : WorkerTick(failed)
    \/ WorkerStop
    \/ Stop
    \/ AdvanceShort

\* The alert engine with two alert records for the system, over the long
\* clock, every lookup of the alert records succeeding.
AlertNextFound ==
    \/ \E h \in Systems, s \in Polled : HandleStatusAlerts(h, s, TRUE)
    \/ \E h \in Systems : handleSystemDownLoad(h)
    \/ \E h \in Systems : handleSystemDownSend(h)
    \/ \E h \in Systems : handleSystemUpLoad(h)
    \/ \E h \in Systems : handleSystemUpSend(h)
    \/ WorkerTask
    \/ \E failed \in SUBSET DOMAIN pendingAlerts : WorkerTick(failed)
    \/ WorkerStop
    \/ Stop
    \/ Advance

InitTwoRules == InitLongRun /\ alerts = {"r1", "r2"}

SpecTwoRules == InitTwoRules /\ [][AlertNextFound]_vars

SpecStatus == Init /\ [][AlertNextAnyStatus]_vars

InitDelaySpec ==
    InitAlerts /\ alerts = DelayAlerts /\ InitAgent /\ InitHealth /\ HealthAtRest
    /\ ConfigAtRest /\ SSHKeyAtRest /\ HubAtRest

\* The alert engine over the short clock, with the alert records whose
\* minimum is 0, negative and above 1.
SpecDelay == InitDelaySpec /\ [][AlertNextShort]_vars

\* The alert engine with one alert record, over the long clock: time
\* passes, and the worker's select takes a tick that stays ready.
AlertNextLong ==
    \/ \E h \in Systems, s \in Polled, ok \in BOOLEAN : HandleStatusAlerts(h, s, ok)
    \/ \E h \in Systems : handleSystemDownLoad(h)
    \/ \E h \in Systems : handleSystemDownSend(h)
    \/ \E h \in Systems : handleSystemUpLoad(h)
    \/ \E h \in Systems : handleSystemUpSend(h)
    \/ WorkerTask
    \/ \E failed \in SUBSET DOMAIN pendingAlerts : WorkerTick(failed)
    \/ WorkerStop
    \/ Stop
    \/ AdvanceLong

InitSweepSpec ==
    InitAlerts /\ alerts = {"r1"} /\ InitAgent /\ InitHealth /\ HealthAtRest
    /\ ConfigAtRest /\ SSHKeyAtRest /\ HubAtRest

SpecSweepFair ==
    /\ InitSweepSpec /\ [][AlertNextLong]_vars
    /\ WF_vars(\E failed \in SUBSET DOMAIN pendingAlerts : WorkerTick(failed))
    /\ WF_vars(AdvanceLong)

SpecWorkerFair ==
    InitLongRun /\ [][AlertNextShort]_vars /\ WF_vars(WorkerTask) /\ WF_vars(WorkerStop)

InitAgentSpec ==
    InitAlerts /\ alerts = {} /\ InitAgent /\ InitHealth /\ HealthAtRest /\ ConfigAtRest /\ SSHKeyAtRest /\ HubAtRest

SpecAgent == InitAgentSpec /\ [][AgentNext]_vars

InitHealthSpec ==
    InitAlerts /\ alerts = {} /\ InitAgent /\ InitHealth /\ ConfigAtRest /\ SSHKeyAtRest /\ HubAtRest

SpecHealth == InitHealthSpec /\ [][HealthNext]_vars

InitConfigSpec ==
    InitAlerts /\ alerts = {} /\ InitAgent /\ InitHealth /\ HealthAtRest /\ InitConfig
    /\ SSHKeyAtRest /\ HubAtRest

SpecConfig == InitConfigSpec /\ [][ConfigNext]_vars

InitSSHKeySpec ==
    InitAlerts /\ alerts = {} /\ InitAgent /\ InitHealth /\ HealthAtRest /\ ConfigAtRest
    /\ InitSSHKey /\ HubAtRest

SpecSSHKey == InitSSHKeySpec /\ [][SSHKeyNext]_vars

InitHubSpec ==
    InitAlerts /\ alerts = {} /\ InitAgent /\ InitHealth /\ HealthAtRest /\ ConfigAtRest
    /\ SSHKeyAtRest /\ InitHub

SpecHub == InitHubSpec /\ [][HubNext]_vars

====
